---- MODULE Spec2Model ----
(***************************************************************************)
(* State machine of the pool program: process_init, the six DeFi           *)
(* instructions and the seven governance instructions of processor.rs,     *)
(* run one at a time against one pool record, a token ledger and a clock.  *)
(***************************************************************************)
EXTENDS Integers, Sequences, FiniteSets, TLC

\* ------------------------------------------------------------------ bounds
\* fees are multiples of 1/FeeDen; DecT::from(1) is FeeDen
FeeDen == 2
\* the clock takes the values k * ENACT_DELAY + j, k <= MaxDelays, j in 1..2
MaxDelays == 1
\* largest raw amount an instruction names
MaxAmount == 1
\* cap of a vault balance and of the LP supply (finite token supplies)
MaxBalance == 2
\* digits kept by a DecT quotient (19 in DecimalU64, scaled down)
DecimalPoint == 3
\* number of tokens of the pool (the const generic TOKEN_COUNT)
TOKEN_COUNT == 2
\* largest vault balance and LP supply of the pool that takes only deposits
\* and uniform removals
MaxDeepBalance == 3

\* ------------------------------------------------------- program constants
ENACT_DELAY == 3 * 86400
MAX_DECIMAL_DIFFERENCE == 8
DECIMAL_UPSHIFT == DecimalPoint - 1
MIN_RAMP_DURATION == 86400
MAX_RAMP_FACTOR == 10
MIN_AMP_VALUE == 1
MAX_AMP_VALUE == 1000000

Tokens == 0 .. (TOKEN_COUNT - 1)

RECURSIVE ten_to_the(_)
ten_to_the(e) == IF e = 0 THEN 1 ELSE 10 * ten_to_the(e - 1)

Max2(a, b) == IF a < b THEN b ELSE a

\* -------------------------------------------------------------------- keys
\* Pubkey::default()
ZeroKey == "zero"
PoolKey == "pool"
LpMintKey == "lp_mint"
GovKeys == {"govA", "govB"}
TokenMintKey(i) == CASE i = 0 -> "mint0" [] i = 1 -> "mint1" [] OTHER -> "mint2"
VaultKey(i) == CASE i = 0 -> "vault0" [] i = 1 -> "vault1" [] OTHER -> "vault2"

\* Pubkey::create_program_address(&[pool_key, &[nonce]], program_id): one
\* address per (pool, nonce), none for a nonce that falls on the curve
GoodNonce == 1
get_pool_authority(pool_key, nonce) ==
    IF nonce = GoodNonce /\ pool_key = PoolKey
    THEN [ok |-> TRUE, key |-> "authority"]
    ELSE [ok |-> FALSE, key |-> ZeroKey]

\* ---------------------------------------------------- ledger account table
\* what the token program's accounts hold when the processor unpacks them;
\* supply of the LP mint and amounts of the vaults are the variables below.
NoMint == [is_mint |-> FALSE, decimals |-> 0, supply |-> 0,
           authority_ok |-> FALSE, freeze |-> FALSE]
MintTable(k) ==
    CASE k = LpMintKey -> [is_mint |-> TRUE, decimals |-> 6, supply |-> 0,
                           authority_ok |-> TRUE, freeze |-> FALSE]
      [] k = "lp_mint_supply" -> [is_mint |-> TRUE, decimals |-> 6, supply |-> 1,
                           authority_ok |-> TRUE, freeze |-> FALSE]
      [] k = "lp_mint_auth" -> [is_mint |-> TRUE, decimals |-> 6, supply |-> 0,
                           authority_ok |-> FALSE, freeze |-> FALSE]
      [] k = "lp_mint_frozen" -> [is_mint |-> TRUE, decimals |-> 6, supply |-> 0,
                           authority_ok |-> TRUE, freeze |-> TRUE]
      [] k = "mint0" -> [is_mint |-> TRUE, decimals |-> 6, supply |-> 0,
                           authority_ok |-> FALSE, freeze |-> FALSE]
      [] k = "mint1" -> [is_mint |-> TRUE, decimals |-> 7, supply |-> 0,
                           authority_ok |-> FALSE, freeze |-> FALSE]
      [] k = "mint2" -> [is_mint |-> TRUE, decimals |-> 6, supply |-> 0,
                           authority_ok |-> FALSE, freeze |-> FALSE]
      [] k = "mint_dec15" -> [is_mint |-> TRUE, decimals |-> 15, supply |-> 0,
                           authority_ok |-> FALSE, freeze |-> FALSE]
      [] k = "mint_dec14" -> [is_mint |-> TRUE, decimals |-> 14, supply |-> 0,
                           authority_ok |-> FALSE, freeze |-> FALSE]
      [] OTHER -> NoMint

NoToken == [is_token |-> FALSE, mint |-> ZeroKey, owner_ok |-> FALSE, amount |-> 0,
            delegate |-> FALSE, close_authority |-> FALSE]
VaultOf(m) == [is_token |-> TRUE, mint |-> m, owner_ok |-> TRUE, amount |-> 0,
               delegate |-> FALSE, close_authority |-> FALSE]
TokenTable(k) ==
    CASE k = "vault0" -> VaultOf("mint0")
      [] k = "vault1" -> VaultOf("mint1")
      [] k = "vault2" -> VaultOf("mint2")
      [] k = "vault_dec14" -> VaultOf("mint_dec14")
      [] k = "vault_dec15" -> VaultOf("mint_dec15")
      [] k = "vault_owner" -> [VaultOf(TokenMintKey(TOKEN_COUNT - 1)) EXCEPT !.owner_ok = FALSE]
      [] k = "vault_amount" -> [VaultOf(TokenMintKey(TOKEN_COUNT - 1)) EXCEPT !.amount = 1]
      [] k = "vault_delegate" -> [VaultOf(TokenMintKey(TOKEN_COUNT - 1)) EXCEPT !.delegate = TRUE]
      [] k = "vault_close" -> [VaultOf(TokenMintKey(TOKEN_COUNT - 1)) EXCEPT !.close_authority = TRUE]
      [] k = "fee_acct" -> [VaultOf(LpMintKey) EXCEPT !.owner_ok = FALSE]
      [] k = "user_tok0" -> [VaultOf("mint0") EXCEPT !.owner_ok = FALSE]
      [] OTHER -> NoToken

\* ------------------------------------------------------------- pool record
\* PoolFee::new: a fee below one is kept as given
PoolFee_new(fee) ==
    IF fee >= FeeDen THEN [ok |-> FALSE, fee |-> 0] ELSE [ok |-> TRUE, fee |-> fee]

\* AmpFactor::new: a constant ramp at a value within [1, 10^6]
AmpFactor_new(v) ==
    IF v < MIN_AMP_VALUE \/ v > MAX_AMP_VALUE
    THEN [ok |-> FALSE, amp |-> [initial_value |-> 0, initial_ts |-> 0,
                                 target_value |-> 0, target_ts |-> 0]]
    ELSE [ok |-> TRUE, amp |-> [initial_value |-> v, initial_ts |-> 0,
                                target_value |-> v, target_ts |-> 0]]

\* the zeroed account data of a pool account before Init
UninitializedPool ==
    [nonce |-> 0, is_paused |-> FALSE,
     amp_factor |-> [initial_value |-> 0, initial_ts |-> 0,
                     target_value |-> 0, target_ts |-> 0],
     lp_fee |-> 0, governance_fee |-> 0,
     lp_mint_key |-> ZeroKey, lp_decimal_equalizer |-> 0,
     token_mint_keys |-> [i \in Tokens |-> ZeroKey],
     token_decimal_equalizers |-> [i \in Tokens |-> 0],
     token_keys |-> [i \in Tokens |-> ZeroKey],
     governance_key |-> ZeroKey, governance_fee_key |-> ZeroKey,
     prepared_governance_key |-> ZeroKey, governance_transition_ts |-> 0,
     prepared_lp_fee |-> 0, prepared_governance_fee |-> 0,
     fee_transition_ts |-> 0, previous_depth |-> 0]

\* PoolState::is_initialized
is_initialized(p) == p.lp_mint_key # ZeroKey

\* check_and_deserialize_pool_state on the account with key k
check_and_deserialize_pool_state(k, p) ==
    IF k # PoolKey THEN "IllegalOwner"
    ELSE IF ~is_initialized(p) THEN "UninitializedAccount"
    ELSE "Ok"

\* ------------------------------------------------------------ process_init
\* spl_token::check_program_account, then T::unpack
unpack_mint_err(k) ==
    IF ~MintTable(k).is_mint /\ ~TokenTable(k).is_token THEN "IncorrectProgramId"
    ELSE IF ~MintTable(k).is_mint THEN "InvalidAccountData" ELSE "Ok"
unpack_token_err(k) ==
    IF ~MintTable(k).is_mint /\ ~TokenTable(k).is_token THEN "IncorrectProgramId"
    ELSE IF ~TokenTable(k).is_token THEN "InvalidAccountData" ELSE "Ok"

\* supply of a mint and amount of a token account as the ledger has them now
mint_supply(k, supply) == IF k = LpMintKey THEN supply ELSE MintTable(k).supply
token_amount(k, balances) ==
    IF \E i \in Tokens : k = VaultKey(i)
    THEN balances[CHOOSE i \in Tokens : k = VaultKey(i)]
    ELSE TokenTable(k).amount

\* first error of two stages run one after the other
Then(e1, e2) == IF e1 # "Ok" THEN e1 ELSE e2

\* the closure handing out the next account without looking for its key
\* among the earlier ones
check_duplicate_and_get_next_unchecked(accounts, i) ==
    IF i > Len(accounts) THEN "NotEnoughAccountKeys" ELSE "Ok"

\* the closure check_duplicate_and_get_next, at its i-th call (1-based)
check_duplicate_and_get_next(accounts, i) ==
    IF i > Len(accounts) THEN "NotEnoughAccountKeys"
    ELSE IF accounts[i] # ZeroKey /\ \E j \in 1 .. (i - 1) : accounts[j] = accounts[i]
         THEN "DuplicateAccount"
    ELSE "Ok"

RECURSIVE init_next_accounts(_, _, _)
init_next_accounts(accounts, from, to) ==
    IF from > to THEN "Ok"
    ELSE Then(check_duplicate_and_get_next(accounts, from),
              init_next_accounts(accounts, from + 1, to))

RECURSIVE init_token_decimals(_, _)
init_token_decimals(accounts, i) ==
    IF i = TOKEN_COUNT THEN "Ok"
    ELSE Then(unpack_mint_err(accounts[3 + i]), init_token_decimals(accounts, i + 1))

\* the vault check that accepts a vault with a delegate
init_token_state_ignores_delegate(accounts, i, balances) ==
    LET k == accounts[3 + TOKEN_COUNT + i]
        t == TokenTable(k)
    IN  IF unpack_token_err(k) # "Ok" THEN unpack_token_err(k)
        ELSE IF t.mint # accounts[3 + i] THEN "MintMismatch"
        ELSE IF ~t.owner_ok THEN "OwnerMismatch"
        ELSE IF token_amount(k, balances) # 0 THEN "TokenAccountHasBalance"
        ELSE IF t.close_authority THEN "TokenAccountHasCloseAuthority"
        ELSE "Ok"

init_token_state(accounts, i, balances) ==
    LET k == accounts[3 + TOKEN_COUNT + i]
        t == TokenTable(k)
    IN  IF unpack_token_err(k) # "Ok" THEN unpack_token_err(k)
        ELSE IF t.mint # accounts[3 + i] THEN "MintMismatch"
        ELSE IF ~t.owner_ok THEN "OwnerMismatch"
        ELSE IF token_amount(k, balances) # 0 THEN "TokenAccountHasBalance"
        ELSE IF t.delegate THEN "TokenAccountHasDelegate"
        ELSE IF t.close_authority THEN "TokenAccountHasCloseAuthority"
        ELSE "Ok"

RECURSIVE init_token_states(_, _, _)
init_token_states(accounts, i, balances) ==
    IF i = TOKEN_COUNT THEN "Ok"
    ELSE Then(init_token_state(accounts, i, balances),
              init_token_states(accounts, i + 1, balances))

init_lp_mint(accounts, supply) ==
    LET k == accounts[2]
    IN  IF unpack_mint_err(k) # "Ok" THEN unpack_mint_err(k)
        ELSE IF mint_supply(k, supply) # 0 THEN "MintHasBalance"
        ELSE IF ~MintTable(k).authority_ok THEN "InvalidMintAuthority"
        ELSE IF MintTable(k).freeze THEN "MintHasFreezeAuthority"
        ELSE "Ok"

\* the decimal range taken from the LP mint alone
init_decimal_range_lp_only(accounts) ==
    [min |-> MintTable(accounts[2]).decimals, max |-> MintTable(accounts[2]).decimals]

init_decimal_range(accounts) ==
    LET decs == {MintTable(accounts[2]).decimals}
                \cup {MintTable(accounts[3 + i]).decimals : i \in Tokens}
        lo == CHOOSE d \in decs : \A e \in decs : d <= e
        hi == CHOOSE d \in decs : \A e \in decs : e <= d
    IN  [min |-> lo, max |-> hi]

init_governance_fee_account(ix, accounts) ==
    LET k == accounts[4 + 2 * TOKEN_COUNT]
    IN  IF ix.governance_fee # 0 \/ k # ZeroKey
        THEN IF unpack_token_err(k) # "Ok" THEN unpack_token_err(k)
             ELSE IF TokenTable(k).mint # accounts[2] THEN "MintMismatch"
             ELSE "Ok"
        ELSE "Ok"

\* the pool account check that lets an initialized record through
init_pool_account_reinit(p, accounts, rent_exempt) ==
    IF ~rent_exempt THEN "AccountNotRentExempt"
    ELSE IF check_and_deserialize_pool_state(accounts[1], p) \in {"UninitializedAccount", "Ok"}
         THEN "Ok"
    ELSE check_and_deserialize_pool_state(accounts[1], p)

init_pool_account(p, accounts, rent_exempt) ==
    IF ~rent_exempt THEN "AccountNotRentExempt"
    ELSE IF check_and_deserialize_pool_state(accounts[1], p) = "UninitializedAccount"
         THEN "Ok"
    ELSE IF check_and_deserialize_pool_state(accounts[1], p) = "Ok"
         THEN "AccountAlreadyInitialized"
    ELSE check_and_deserialize_pool_state(accounts[1], p)

\* mutant: the sum may reach one
init_fee_input_reaches_one(ix) ==
    IF ix.lp_fee + ix.governance_fee > FeeDen THEN "InvalidFeeInput" ELSE "Ok"

\* the fee check that opens process_init
init_fee_input(ix) ==
    IF ix.lp_fee + ix.governance_fee >= FeeDen THEN "InvalidFeeInput" ELSE "Ok"

\* every check of process_init, in the order of the code
process_init_err(p, ix, accounts, rent_exempt, balances, supply) ==
    LET n == TOKEN_COUNT IN
    Then(init_fee_input(ix),
    Then(check_duplicate_and_get_next(accounts, 1),
    Then(init_pool_account(p, accounts, rent_exempt),
    Then(IF get_pool_authority(accounts[1], ix.nonce).ok THEN "Ok" ELSE "IncorrectProgramId",
    Then(check_duplicate_and_get_next(accounts, 2),
    Then(init_lp_mint(accounts, supply),
    Then(init_next_accounts(accounts, 3, 2 + 2 * n),
    Then(init_token_decimals(accounts, 0),
    Then(IF init_decimal_range(accounts).max - init_decimal_range(accounts).min
            > MAX_DECIMAL_DIFFERENCE
         THEN "MaxDecimalDifferenceExceeded" ELSE "Ok",
    Then(init_token_states(accounts, 0, balances),
    Then(init_next_accounts(accounts, 3 + 2 * n, 4 + 2 * n),
    Then(init_governance_fee_account(ix, accounts),
    Then(IF AmpFactor_new(ix.amp_factor).ok THEN "Ok" ELSE "AmpValueOutOfRange",
    Then(IF PoolFee_new(ix.lp_fee).ok THEN "Ok" ELSE "InvalidFeeInput",
         IF PoolFee_new(ix.governance_fee).ok THEN "Ok" ELSE "InvalidFeeInput"))))))))))))))

\* the record process_init serializes
init_pool_state(ix, accounts) ==
    LET hi == init_decimal_range(accounts).max IN
    [nonce |-> ix.nonce, is_paused |-> FALSE,
     amp_factor |-> AmpFactor_new(ix.amp_factor).amp,
     lp_fee |-> PoolFee_new(ix.lp_fee).fee,
     governance_fee |-> PoolFee_new(ix.governance_fee).fee,
     lp_mint_key |-> accounts[2],
     lp_decimal_equalizer |-> hi - MintTable(accounts[2]).decimals,
     token_mint_keys |-> [i \in Tokens |-> accounts[3 + i]],
     token_decimal_equalizers |-> [i \in Tokens |-> hi - MintTable(accounts[3 + i]).decimals],
     token_keys |-> [i \in Tokens |-> accounts[3 + TOKEN_COUNT + i]],
     governance_key |-> accounts[3 + 2 * TOKEN_COUNT],
     governance_fee_key |-> accounts[4 + 2 * TOKEN_COUNT],
     prepared_governance_key |-> ZeroKey, governance_transition_ts |-> 0,
     prepared_lp_fee |-> 0, prepared_governance_fee |-> 0,
     fee_transition_ts |-> 0, previous_depth |-> 0]

process_init(p, ix, accounts, rent_exempt, balances, supply) ==
    LET e == process_init_err(p, ix, accounts, rent_exempt, balances, supply)
    IN  [result |-> e,
         pool |-> IF e = "Ok" THEN init_pool_state(ix, accounts) ELSE p]

\* --------------------------------------------------------------- AmpFactor
\* AmpFactor::get: the ramp value at time t, clamped to both ends
AmpFactor_get(a, t) ==
    IF t >= a.target_ts THEN a.target_value
    ELSE IF t <= a.initial_ts THEN a.initial_value
    ELSE IF a.target_value >= a.initial_value
         THEN a.initial_value
              + ((a.target_value - a.initial_value) * (t - a.initial_ts))
                \div (a.target_ts - a.initial_ts)
    ELSE a.initial_value
         - ((a.initial_value - a.target_value) * (t - a.initial_ts))
           \div (a.target_ts - a.initial_ts)

\* AmpFactor::set_target
AmpFactor_set_target(a, current_ts, target_value, target_ts) ==
    LET cur == AmpFactor_get(a, current_ts) IN
    IF target_value < MIN_AMP_VALUE \/ target_value > MAX_AMP_VALUE
    THEN [result |-> "AmpValueOutOfRange", amp |-> a]
    ELSE IF target_ts < current_ts + MIN_RAMP_DURATION
    THEN [result |-> "InsufficientDelay", amp |-> a]
    ELSE IF cur * MAX_RAMP_FACTOR < target_value \/ target_value * MAX_RAMP_FACTOR < cur
    THEN [result |-> "AmpJumpTooLarge", amp |-> a]
    ELSE [result |-> "Ok",
          amp |-> [initial_value |-> cur, initial_ts |-> current_ts,
                   target_value |-> target_value, target_ts |-> target_ts]]

\* ---------------------------------------- process_governance_instruction
\* mutant: any account that signed passes
verify_governance_signature_any_signer(governance_account, signers, p) ==
    IF governance_account \notin signers THEN "MissingRequiredSignature"
    ELSE "Ok"

verify_governance_signature(governance_account, signers, p) ==
    IF governance_account # p.governance_key THEN "InvalidGovernanceAccount"
    ELSE IF governance_account \notin signers THEN "MissingRequiredSignature"
    ELSE "Ok"

\* mutant: a second PrepareFeeChange keeps the timer of the first
PrepareFeeChange_keeps_timer(p, ix, now) ==
    IF ix.lp_fee + ix.governance_fee >= FeeDen
    THEN [result |-> "InvalidFeeInput", pool |-> p]
    ELSE IF ~PoolFee_new(ix.lp_fee).ok \/ ~PoolFee_new(ix.governance_fee).ok
    THEN [result |-> "InvalidFeeInput", pool |-> p]
    ELSE [result |-> "Ok",
          pool |-> [p EXCEPT !.prepared_lp_fee = PoolFee_new(ix.lp_fee).fee,
                             !.prepared_governance_fee = PoolFee_new(ix.governance_fee).fee,
                             !.fee_transition_ts =
                                 IF p.fee_transition_ts # 0 THEN p.fee_transition_ts
                                 ELSE now + ENACT_DELAY]]

PrepareFeeChange(p, ix, now) ==
    IF ix.lp_fee + ix.governance_fee >= FeeDen
    THEN [result |-> "InvalidFeeInput", pool |-> p]
    ELSE IF ~PoolFee_new(ix.lp_fee).ok \/ ~PoolFee_new(ix.governance_fee).ok
    THEN [result |-> "InvalidFeeInput", pool |-> p]
    ELSE [result |-> "Ok",
          pool |-> [p EXCEPT !.prepared_lp_fee = PoolFee_new(ix.lp_fee).fee,
                             !.prepared_governance_fee = PoolFee_new(ix.governance_fee).fee,
                             !.fee_transition_ts = now + ENACT_DELAY]]

\* mutant: the delay must have passed by more than a second
EnactFeeChange_late(p, now) ==
    IF p.fee_transition_ts = 0
    THEN [result |-> "InvalidEnact", pool |-> p]
    ELSE IF p.fee_transition_ts >= now
    THEN [result |-> "InsufficientDelay", pool |-> p]
    ELSE IF p.prepared_governance_fee > 0 /\ p.governance_fee_key = ZeroKey
    THEN [result |-> "InvalidGovernanceFeeAccount", pool |-> p]
    ELSE [result |-> "Ok",
          pool |-> [p EXCEPT !.lp_fee = p.prepared_lp_fee,
                             !.governance_fee = p.prepared_governance_fee,
                             !.prepared_lp_fee = 0,
                             !.prepared_governance_fee = 0,
                             !.fee_transition_ts = 0]]

\* mutant: the governance fee account is not checked again
EnactFeeChange_no_account_check(p, now) ==
    IF p.fee_transition_ts = 0
    THEN [result |-> "InvalidEnact", pool |-> p]
    ELSE IF p.fee_transition_ts > now
    THEN [result |-> "InsufficientDelay", pool |-> p]
    ELSE [result |-> "Ok",
          pool |-> [p EXCEPT !.lp_fee = p.prepared_lp_fee,
                             !.governance_fee = p.prepared_governance_fee,
                             !.prepared_lp_fee = 0,
                             !.prepared_governance_fee = 0,
                             !.fee_transition_ts = 0]]

\* mutant: enacting the fees also drops a waiting governance transition
EnactFeeChange_drops_transition(p, now) ==
    IF p.fee_transition_ts = 0
    THEN [result |-> "InvalidEnact", pool |-> p]
    ELSE IF p.fee_transition_ts > now
    THEN [result |-> "InsufficientDelay", pool |-> p]
    ELSE IF p.prepared_governance_fee > 0 /\ p.governance_fee_key = ZeroKey
    THEN [result |-> "InvalidGovernanceFeeAccount", pool |-> p]
    ELSE [result |-> "Ok",
          pool |-> [p EXCEPT !.lp_fee = p.prepared_lp_fee,
                             !.governance_fee = p.prepared_governance_fee,
                             !.prepared_lp_fee = 0,
                             !.prepared_governance_fee = 0,
                             !.fee_transition_ts = 0,
                             !.prepared_governance_key = ZeroKey,
                             !.governance_transition_ts = 0]]

\* mutant: the enacted fees stay in the prepared fields
EnactFeeChange_keeps_prepared(p, now) ==
    IF p.fee_transition_ts = 0
    THEN [result |-> "InvalidEnact", pool |-> p]
    ELSE IF p.fee_transition_ts > now
    THEN [result |-> "InsufficientDelay", pool |-> p]
    ELSE IF p.prepared_governance_fee > 0 /\ p.governance_fee_key = ZeroKey
    THEN [result |-> "InvalidGovernanceFeeAccount", pool |-> p]
    ELSE [result |-> "Ok",
          pool |-> [p EXCEPT !.lp_fee = p.prepared_lp_fee,
                             !.governance_fee = p.prepared_governance_fee,
                             !.fee_transition_ts = 0]]

EnactFeeChange(p, now) ==
    IF p.fee_transition_ts = 0
    THEN [result |-> "InvalidEnact", pool |-> p]
    ELSE IF p.fee_transition_ts > now
    THEN [result |-> "InsufficientDelay", pool |-> p]
    ELSE IF p.prepared_governance_fee > 0 /\ p.governance_fee_key = ZeroKey
    THEN [result |-> "InvalidGovernanceFeeAccount", pool |-> p]
    ELSE [result |-> "Ok",
          pool |-> [p EXCEPT !.lp_fee = p.prepared_lp_fee,
                             !.governance_fee = p.prepared_governance_fee,
                             !.prepared_lp_fee = 0,
                             !.prepared_governance_fee = 0,
                             !.fee_transition_ts = 0]]

\* mutant: the transition may be enacted at once
PrepareGovernanceTransition_no_delay(p, ix, now) ==
    [result |-> "Ok",
     pool |-> [p EXCEPT !.prepared_governance_key = ix.upcoming_governance_key,
                        !.governance_transition_ts = now]]

PrepareGovernanceTransition(p, ix, now) ==
    [result |-> "Ok",
     pool |-> [p EXCEPT !.prepared_governance_key = ix.upcoming_governance_key,
                        !.governance_transition_ts = now + ENACT_DELAY]]

\* mutant: the governance key is not replaced
EnactGovernanceTransition_keeps_key(p, now) ==
    IF p.governance_transition_ts = 0
    THEN [result |-> "InvalidEnact", pool |-> p]
    ELSE IF p.governance_transition_ts > now
    THEN [result |-> "InsufficientDelay", pool |-> p]
    ELSE [result |-> "Ok",
          pool |-> [p EXCEPT !.prepared_governance_key = ZeroKey,
                             !.governance_transition_ts = 0]]

\* mutant: the transition stays pending after it is enacted
EnactGovernanceTransition_stays_pending(p, now) ==
    IF p.governance_transition_ts = 0
    THEN [result |-> "InvalidEnact", pool |-> p]
    ELSE IF p.governance_transition_ts > now
    THEN [result |-> "InsufficientDelay", pool |-> p]
    ELSE [result |-> "Ok",
          pool |-> [p EXCEPT !.governance_key = p.prepared_governance_key]]

EnactGovernanceTransition(p, now) ==
    IF p.governance_transition_ts = 0
    THEN [result |-> "InvalidEnact", pool |-> p]
    ELSE IF p.governance_transition_ts > now
    THEN [result |-> "InsufficientDelay", pool |-> p]
    ELSE [result |-> "Ok",
          pool |-> [p EXCEPT !.governance_key = p.prepared_governance_key,
                             !.prepared_governance_key = ZeroKey,
                             !.governance_transition_ts = 0]]

\* mutant: the account may be cleared while a governance fee is charged
ChangeGovernanceFeeAccount_clears_freely(p, ix, accounts) ==
    LET k == ix.governance_fee_key IN
    IF k # ZeroKey
    THEN IF Len(accounts) < 3 THEN [result |-> "NotEnoughAccountKeys", pool |-> p]
         ELSE IF accounts[3] # k THEN [result |-> "InvalidGovernanceFeeAccount", pool |-> p]
         ELSE IF unpack_token_err(accounts[3]) # "Ok"
              THEN [result |-> unpack_token_err(accounts[3]), pool |-> p]
         ELSE IF TokenTable(accounts[3]).mint # p.lp_mint_key
              THEN [result |-> "MintMismatch", pool |-> p]
         ELSE [result |-> "Ok", pool |-> [p EXCEPT !.governance_fee_key = k]]
    ELSE [result |-> "Ok", pool |-> [p EXCEPT !.governance_fee_key = k]]

\* mutant: a token account of any mint is accepted
ChangeGovernanceFeeAccount_any_mint(p, ix, accounts) ==
    LET k == ix.governance_fee_key IN
    IF k # ZeroKey
    THEN IF Len(accounts) < 3 THEN [result |-> "NotEnoughAccountKeys", pool |-> p]
         ELSE IF accounts[3] # k THEN [result |-> "InvalidGovernanceFeeAccount", pool |-> p]
         ELSE IF unpack_token_err(accounts[3]) # "Ok"
              THEN [result |-> unpack_token_err(accounts[3]), pool |-> p]
         ELSE [result |-> "Ok", pool |-> [p EXCEPT !.governance_fee_key = k]]
    ELSE IF p.governance_fee # 0
         THEN [result |-> "InvalidGovernanceFeeAccount", pool |-> p]
    ELSE [result |-> "Ok", pool |-> [p EXCEPT !.governance_fee_key = k]]

ChangeGovernanceFeeAccount(p, ix, accounts) ==
    LET k == ix.governance_fee_key IN
    IF k # ZeroKey
    THEN IF Len(accounts) < 3 THEN [result |-> "NotEnoughAccountKeys", pool |-> p]
         ELSE IF accounts[3] # k THEN [result |-> "InvalidGovernanceFeeAccount", pool |-> p]
         ELSE IF unpack_token_err(accounts[3]) # "Ok"
              THEN [result |-> unpack_token_err(accounts[3]), pool |-> p]
         ELSE IF TokenTable(accounts[3]).mint # p.lp_mint_key
              THEN [result |-> "MintMismatch", pool |-> p]
         ELSE [result |-> "Ok", pool |-> [p EXCEPT !.governance_fee_key = k]]
    ELSE IF p.governance_fee # 0
         THEN [result |-> "InvalidGovernanceFeeAccount", pool |-> p]
    ELSE [result |-> "Ok", pool |-> [p EXCEPT !.governance_fee_key = k]]

AdjustAmpFactor(p, ix, now) ==
    LET r == AmpFactor_set_target(p.amp_factor, now, ix.target_value, ix.target_ts) IN
    [result |-> r.result,
     pool |-> IF r.result = "Ok" THEN [p EXCEPT !.amp_factor = r.amp] ELSE p]

SetPaused(p, ix) ==
    [result |-> "Ok", pool |-> [p EXCEPT !.is_paused = ix.paused]]

governance_arm(p, ix, accounts, now) ==
    CASE ix.kind = "PrepareFeeChange" -> PrepareFeeChange(p, ix, now)
      [] ix.kind = "EnactFeeChange" -> EnactFeeChange(p, now)
      [] ix.kind = "PrepareGovernanceTransition" -> PrepareGovernanceTransition(p, ix, now)
      [] ix.kind = "EnactGovernanceTransition" -> EnactGovernanceTransition(p, now)
      [] ix.kind = "ChangeGovernanceFeeAccount" -> ChangeGovernanceFeeAccount(p, ix, accounts)
      [] ix.kind = "AdjustAmpFactor" -> AdjustAmpFactor(p, ix, now)
      [] ix.kind = "SetPaused" -> SetPaused(p, ix)

\* mutant: a paused pool refuses governance instructions as well
process_governance_instruction_gated(p, ix, accounts, signers, now) ==
    IF Len(accounts) < 1 THEN [result |-> "NotEnoughAccountKeys", pool |-> p]
    ELSE IF check_and_deserialize_pool_state(accounts[1], p) # "Ok"
    THEN [result |-> check_and_deserialize_pool_state(accounts[1], p), pool |-> p]
    ELSE IF p.is_paused THEN [result |-> "PoolIsPaused", pool |-> p]
    ELSE IF Len(accounts) < 2 THEN [result |-> "NotEnoughAccountKeys", pool |-> p]
    ELSE IF verify_governance_signature(accounts[2], signers, p) # "Ok"
    THEN [result |-> verify_governance_signature(accounts[2], signers, p), pool |-> p]
    ELSE governance_arm(p, ix, accounts, now)

process_governance_instruction(p, ix, accounts, signers, now) ==
    IF Len(accounts) < 1 THEN [result |-> "NotEnoughAccountKeys", pool |-> p]
    ELSE IF check_and_deserialize_pool_state(accounts[1], p) # "Ok"
    THEN [result |-> check_and_deserialize_pool_state(accounts[1], p), pool |-> p]
    ELSE IF Len(accounts) < 2 THEN [result |-> "NotEnoughAccountKeys", pool |-> p]
    ELSE IF verify_governance_signature(accounts[2], signers, p) # "Ok"
    THEN [result |-> verify_governance_signature(accounts[2], signers, p), pool |-> p]
    ELSE governance_arm(p, ix, accounts, now)

\* ------------------------------------------------- decimal equalization
to_equalized(value, equalizer) ==
    IF equalizer > 0 THEN value * ten_to_the(equalizer) ELSE value

\* de-equalization that cuts the fraction off
from_equalized_truncates(value, equalizer) ==
    IF equalizer > 0 THEN value \div ten_to_the(equalizer) ELSE value

from_equalized(value, equalizer) ==
    IF equalizer > 0
    THEN (value + ten_to_the(equalizer - 1) * 5) \div ten_to_the(equalizer)
    ELSE value

array_equalize(amounts, p) ==
    [i \in Tokens |-> to_equalized(amounts[i], p.token_decimal_equalizers[i])]

result_from_equalized(r, user_equalizer, p) ==
    [user_amount |-> from_equalized(r.user_amount, user_equalizer),
     governance_mint_amount |-> from_equalized(r.governance_mint_amount,
                                               p.lp_decimal_equalizer),
     latest_depth |-> r.latest_depth]

\* ---------------------------------------------------------------- ledger
\* one call of the token program: transfer, mint_to, burn; "fail" is a
\* return of the handler between two calls
Transfer(from, to, amount) == [op |-> "transfer", from |-> from, to |-> to, amount |-> amount]
MintTo(mint, to, amount) == [op |-> "mint", from |-> mint, to |-> to, amount |-> amount]
Burn(from, mint, amount) == [op |-> "burn", from |-> from, to |-> mint, amount |-> amount]
Fail(err) == [op |-> "fail", from |-> err, to |-> err, amount |-> 0]

IsVault(k) == \E i \in Tokens : k = VaultKey(i)
VaultIndex(k) == CHOOSE i \in Tokens : k = VaultKey(i)

\* the token program's answer to one call: user_ok says whether the user's
\* accounts hold the funds and the user authority signed
ledger_call_err(c, bal, sup, user_ok) ==
    CASE c.op = "transfer" ->
            IF IsVault(c.from)
            THEN IF bal[VaultIndex(c.from)] < c.amount THEN "InsufficientFunds" ELSE "Ok"
            ELSE IF user_ok THEN "Ok" ELSE "InsufficientFunds"
      [] c.op = "burn" ->
            IF ~user_ok \/ c.amount > sup THEN "InsufficientFunds" ELSE "Ok"
      [] OTHER -> "Ok"

ledger_call_balances(c, bal) ==
    IF c.op # "transfer" THEN bal
    ELSE [i \in Tokens |->
            bal[i] - (IF c.from = VaultKey(i) THEN c.amount ELSE 0)
                   + (IF c.to = VaultKey(i) THEN c.amount ELSE 0)]

ledger_call_supply(c, sup) ==
    CASE c.op = "mint" -> sup + c.amount
      [] c.op = "burn" -> sup - c.amount
      [] OTHER -> sup

\* the calls of one handler run in order; the first failure ends the handler
RECURSIVE run_calls(_, _, _, _, _, _)
run_calls(plan, i, done, bal, sup, user_ok) ==
    IF i > Len(plan)
    THEN [result |-> "Ok", effects |-> done, balances |-> bal, supply |-> sup]
    ELSE IF plan[i].op = "fail"
    THEN [result |-> plan[i].from, effects |-> done, balances |-> bal, supply |-> sup]
    ELSE IF ledger_call_err(plan[i], bal, sup, user_ok) # "Ok"
    THEN [result |-> ledger_call_err(plan[i], bal, sup, user_ok),
          effects |-> done, balances |-> bal, supply |-> sup]
    ELSE run_calls(plan, i + 1, Append(done, plan[i]),
                   ledger_call_balances(plan[i], bal),
                   ledger_call_supply(plan[i], sup), user_ok)

\* ------------------------------------------------ process_defi_instruction
\* positions of the accounts of a DeFi instruction (1-based)
AccAuthority == 2
AccVault(i) == 3 + i
AccLpMint == 3 + TOKEN_COUNT
AccGovFee == 4 + TOKEN_COUNT
AccUserAuthority == 5 + TOKEN_COUNT
AccUserToken(i) == 6 + TOKEN_COUNT + i
AccTokenProgram == 6 + 2 * TOKEN_COUNT
AccUserLp == 7 + 2 * TOKEN_COUNT

pause_gate_no_exemption(p, ix) ==
    IF p.is_paused THEN "PoolIsPaused" ELSE "Ok"

pause_gate_add_exempt(p, ix) ==
    IF p.is_paused /\ ix.kind \notin {"RemoveUniform", "Add"} THEN "PoolIsPaused" ELSE "Ok"

\* the pause check of process_defi_instruction
pause_gate(p, ix) ==
    IF p.is_paused /\ ix.kind # "RemoveUniform" THEN "PoolIsPaused" ELSE "Ok"

RECURSIVE check_pool_token_accounts(_, _, _)
check_pool_token_accounts(p, accounts, i) ==
    IF i = TOKEN_COUNT THEN "Ok"
    ELSE IF Len(accounts) < AccVault(i) THEN "NotEnoughAccountKeys"
    ELSE IF accounts[AccVault(i)] # p.token_keys[i] THEN "PoolTokenAccountExpected"
    ELSE check_pool_token_accounts(p, accounts, i + 1)

\* the account checks that follow the pause check
defi_accounts_err(p, accounts) ==
    IF Len(accounts) < AccAuthority THEN "NotEnoughAccountKeys"
    ELSE IF ~get_pool_authority(accounts[1], p.nonce).ok THEN "IncorrectProgramId"
    ELSE IF accounts[AccAuthority] # get_pool_authority(accounts[1], p.nonce).key
         THEN "InvalidPoolAuthorityAccount"
    ELSE IF check_pool_token_accounts(p, accounts, 0) # "Ok"
         THEN check_pool_token_accounts(p, accounts, 0)
    ELSE IF Len(accounts) < AccLpMint THEN "NotEnoughAccountKeys"
    ELSE IF accounts[AccLpMint] # p.lp_mint_key THEN "InvalidMintAccount"
    ELSE IF Len(accounts) < AccGovFee THEN "NotEnoughAccountKeys"
    ELSE IF accounts[AccGovFee] # p.governance_fee_key THEN "InvalidGovernanceFeeAccount"
    ELSE IF Len(accounts) < AccTokenProgram THEN "NotEnoughAccountKeys"
    ELSE "Ok"

\* the transfers of the positive amounts, in index order
RECURSIVE transfers_in(_, _, _)
transfers_in(accounts, amounts, i) ==
    IF i = TOKEN_COUNT THEN <<>>
    ELSE (IF amounts[i] > 0
          THEN <<Transfer(accounts[AccUserToken(i)], accounts[AccVault(i)], amounts[i])>>
          ELSE <<>>) \o transfers_in(accounts, amounts, i + 1)

RECURSIVE transfers_out(_, _, _)
transfers_out(accounts, amounts, i) ==
    IF i = TOKEN_COUNT THEN <<>>
    ELSE (IF amounts[i] > 0
          THEN <<Transfer(accounts[AccVault(i)], accounts[AccUserToken(i)], amounts[i])>>
          ELSE <<>>) \o transfers_out(accounts, amounts, i + 1)

\* the governance fee mint made also for an amount of zero
governance_mint_always(accounts, governance_mint_amount) ==
    <<MintTo(accounts[AccLpMint], accounts[AccGovFee], governance_mint_amount)>>

\* the governance fee mint that ends every DeFi handler
governance_mint(accounts, governance_mint_amount) ==
    IF governance_mint_amount > 0
    THEN <<MintTo(accounts[AccLpMint], accounts[AccGovFee], governance_mint_amount)>>
    ELSE <<>>

Arm(err, plan, gov, depth) ==
    [err |-> err, plan |-> plan, governance_mint_amount |-> gov, latest_depth |-> depth]
ArmErr(err) == Arm(err, <<>>, 0, 0)

AllZero(amounts) == \A i \in Tokens : amounts[i] = 0

\* Add taking a first deposit that leaves a token out
Add_partial_first_deposit(p, ix, accounts, balances, supply, r) ==
    LET res == result_from_equalized(r, p.lp_decimal_equalizer, p) IN
    IF AllZero(ix.input_amounts) THEN ArmErr("InvalidInstructionData")
    ELSE IF Len(accounts) < AccUserLp THEN ArmErr("NotEnoughAccountKeys")
    ELSE IF ~r.ok THEN ArmErr(r.err)
    ELSE IF res.user_amount < ix.minimum_mint_amount THEN ArmErr("OutsideSpecifiedLimits")
    ELSE Arm("Ok",
             transfers_in(accounts, ix.input_amounts, 0)
             \o <<MintTo(accounts[AccLpMint], accounts[AccUserLp], res.user_amount)>>,
             res.governance_mint_amount, res.latest_depth)

\* Add refusing a mint amount equal to the minimum
Add_rejects_equal(p, ix, accounts, balances, supply, r) ==
    LET res == result_from_equalized(r, p.lp_decimal_equalizer, p) IN
    IF AllZero(ix.input_amounts) THEN ArmErr("InvalidInstructionData")
    ELSE IF supply = 0 /\ \E i \in Tokens : ix.input_amounts[i] = 0
    THEN ArmErr("AddRequiresAllTokens")
    ELSE IF Len(accounts) < AccUserLp THEN ArmErr("NotEnoughAccountKeys")
    ELSE IF ~r.ok THEN ArmErr(r.err)
    ELSE IF res.user_amount <= ix.minimum_mint_amount THEN ArmErr("OutsideSpecifiedLimits")
    ELSE Arm("Ok",
             transfers_in(accounts, ix.input_amounts, 0)
             \o <<MintTo(accounts[AccLpMint], accounts[AccUserLp], res.user_amount)>>,
             res.governance_mint_amount, res.latest_depth)

\* DeFiInstruction::Add; r is what Invariant::add returns
Add(p, ix, accounts, balances, supply, r) ==
    LET res == result_from_equalized(r, p.lp_decimal_equalizer, p) IN
    IF AllZero(ix.input_amounts) THEN ArmErr("InvalidInstructionData")
    ELSE IF supply = 0 /\ \E i \in Tokens : ix.input_amounts[i] = 0
    THEN ArmErr("AddRequiresAllTokens")
    ELSE IF Len(accounts) < AccUserLp THEN ArmErr("NotEnoughAccountKeys")
    ELSE IF ~r.ok THEN ArmErr(r.err)
    ELSE IF res.user_amount < ix.minimum_mint_amount THEN ArmErr("OutsideSpecifiedLimits")
    ELSE Arm("Ok",
             transfers_in(accounts, ix.input_amounts, 0)
             \o <<MintTo(accounts[AccLpMint], accounts[AccUserLp], res.user_amount)>>,
             res.governance_mint_amount, res.latest_depth)

\* DecT::from(exact_burn_amount) / lp_total_supply: the mantissa of the
\* quotient at DecimalPoint digits
user_share(exact_burn_amount, supply) ==
    (exact_burn_amount * ten_to_the(DecimalPoint)) \div supply

\* (pool_balances[i] * user_share).trunc()
uniform_output_amount(balance, share) ==
    (balance * share) \div ten_to_the(DecimalPoint)

\* previous_depth - previous_depth * trunc(user_share * 10^UPSHIFT) / 10^UPSHIFT
uniform_latest_depth(previous_depth, share) ==
    previous_depth
    - (previous_depth * (share \div ten_to_the(DecimalPoint - DECIMAL_UPSHIFT)))
      \div ten_to_the(DECIMAL_UPSHIFT)

\* the loop of RemoveUniform: limit check, then transfer, per token
RECURSIVE uniform_loop(_, _, _, _, _)
uniform_loop(ix, accounts, balances, share, i) ==
    IF i = TOKEN_COUNT THEN <<>>
    ELSE IF uniform_output_amount(balances[i], share) < ix.minimum_output_amounts[i]
    THEN <<Fail("OutsideSpecifiedLimits")>>
    ELSE <<Transfer(accounts[AccVault(i)], accounts[AccUserToken(i)],
                    uniform_output_amount(balances[i], share))>>
         \o uniform_loop(ix, accounts, balances, share, i + 1)

\* mutant: the whole supply may not be burnt, as in RemoveExactBurn
RemoveUniform_keeps_supply(p, ix, accounts, balances, supply) ==
    IF ix.exact_burn_amount = 0 \/ ix.exact_burn_amount >= supply
    THEN ArmErr("InvalidInstructionData")
    ELSE IF Len(accounts) < AccUserLp THEN ArmErr("NotEnoughAccountKeys")
    ELSE LET share == user_share(ix.exact_burn_amount, supply) IN
         Arm("Ok",
             uniform_loop(ix, accounts, balances, share, 0)
             \o <<Burn(accounts[AccUserLp], accounts[AccLpMint], ix.exact_burn_amount)>>,
             0, uniform_latest_depth(p.previous_depth, share))

\* DeFiInstruction::RemoveUniform
RemoveUniform(p, ix, accounts, balances, supply) ==
    IF ix.exact_burn_amount = 0 \/ ix.exact_burn_amount > supply
    THEN ArmErr("InvalidInstructionData")
    ELSE IF Len(accounts) < AccUserLp THEN ArmErr("NotEnoughAccountKeys")
    ELSE LET share == user_share(ix.exact_burn_amount, supply) IN
         Arm("Ok",
             uniform_loop(ix, accounts, balances, share, 0)
             \o <<Burn(accounts[AccUserLp], accounts[AccLpMint], ix.exact_burn_amount)>>,
             0, uniform_latest_depth(p.previous_depth, share))

\* SwapExactInput taking an input amount of its output token
SwapExactInput_same_token(p, ix, accounts, balances, supply, r) ==
    LET k == ix.output_token_index
        res == result_from_equalized(r, p.token_decimal_equalizers[k], p) IN
    IF AllZero(ix.exact_input_amounts) \/ k >= TOKEN_COUNT
    THEN ArmErr("InvalidInstructionData")
    ELSE IF ~r.ok THEN ArmErr(r.err)
    ELSE IF res.user_amount < ix.minimum_output_amount THEN ArmErr("OutsideSpecifiedLimits")
    ELSE Arm("Ok",
             transfers_in(accounts, ix.exact_input_amounts, 0)
             \o <<Transfer(accounts[AccVault(k)], accounts[AccUserToken(k)], res.user_amount)>>,
             res.governance_mint_amount, res.latest_depth)

\* DeFiInstruction::SwapExactInput; r is what Invariant::swap_exact_input returns
SwapExactInput(p, ix, accounts, balances, supply, r) ==
    LET k == ix.output_token_index
        res == result_from_equalized(r, p.token_decimal_equalizers[k], p) IN
    IF AllZero(ix.exact_input_amounts) \/ k >= TOKEN_COUNT
    THEN ArmErr("InvalidInstructionData")
    ELSE IF ix.exact_input_amounts[k] # 0 THEN ArmErr("InvalidInstructionData")
    ELSE IF ~r.ok THEN ArmErr(r.err)
    ELSE IF res.user_amount < ix.minimum_output_amount THEN ArmErr("OutsideSpecifiedLimits")
    ELSE Arm("Ok",
             transfers_in(accounts, ix.exact_input_amounts, 0)
             \o <<Transfer(accounts[AccVault(k)], accounts[AccUserToken(k)], res.user_amount)>>,
             res.governance_mint_amount, res.latest_depth)

\* SwapExactOutput paying the user before it collects the input
SwapExactOutput_pays_first(p, ix, accounts, balances, supply, r) ==
    LET k == ix.input_token_index
        res == result_from_equalized(r, p.token_decimal_equalizers[k], p) IN
    IF AllZero(ix.exact_output_amounts) \/ k >= TOKEN_COUNT
    THEN ArmErr("InvalidInstructionData")
    ELSE IF ix.exact_output_amounts[k] # 0
            \/ \E i \in Tokens : ix.exact_output_amounts[i] >= balances[i]
    THEN ArmErr("InvalidInstructionData")
    ELSE IF ~r.ok THEN ArmErr(r.err)
    ELSE IF res.user_amount > ix.maximum_input_amount THEN ArmErr("OutsideSpecifiedLimits")
    ELSE Arm("Ok",
             transfers_out(accounts, ix.exact_output_amounts, 0)
             \o <<Transfer(accounts[AccUserToken(k)], accounts[AccVault(k)], res.user_amount)>>,
             res.governance_mint_amount, res.latest_depth)

\* DeFiInstruction::SwapExactOutput; r is what Invariant::swap_exact_output returns
SwapExactOutput(p, ix, accounts, balances, supply, r) ==
    LET k == ix.input_token_index
        res == result_from_equalized(r, p.token_decimal_equalizers[k], p) IN
    IF AllZero(ix.exact_output_amounts) \/ k >= TOKEN_COUNT
    THEN ArmErr("InvalidInstructionData")
    ELSE IF ix.exact_output_amounts[k] # 0
            \/ \E i \in Tokens : ix.exact_output_amounts[i] >= balances[i]
    THEN ArmErr("InvalidInstructionData")
    ELSE IF ~r.ok THEN ArmErr(r.err)
    ELSE IF res.user_amount > ix.maximum_input_amount THEN ArmErr("OutsideSpecifiedLimits")
    ELSE Arm("Ok",
             <<Transfer(accounts[AccUserToken(k)], accounts[AccVault(k)], res.user_amount)>>
             \o transfers_out(accounts, ix.exact_output_amounts, 0),
             res.governance_mint_amount, res.latest_depth)

\* DeFiInstruction::RemoveExactBurn; r is what Invariant::remove_exact_burn returns
RemoveExactBurn(p, ix, accounts, balances, supply, r) ==
    LET k == ix.output_token_index
        res == result_from_equalized(r, p.token_decimal_equalizers[k], p) IN
    IF k >= TOKEN_COUNT \/ ix.exact_burn_amount = 0 \/ ix.exact_burn_amount >= supply
    THEN ArmErr("InvalidInstructionData")
    ELSE IF Len(accounts) < AccUserLp THEN ArmErr("NotEnoughAccountKeys")
    ELSE IF ~r.ok THEN ArmErr(r.err)
    ELSE IF res.user_amount < ix.minimum_output_amount THEN ArmErr("OutsideSpecifiedLimits")
    ELSE Arm("Ok",
             <<Burn(accounts[AccUserLp], accounts[AccLpMint], ix.exact_burn_amount),
               Transfer(accounts[AccVault(k)], accounts[AccUserToken(k)], res.user_amount)>>,
             res.governance_mint_amount, res.latest_depth)

\* RemoveExactOutput letting an output take the whole vault balance
RemoveExactOutput_drains(p, ix, accounts, balances, supply, r) ==
    LET res == result_from_equalized(r, p.lp_decimal_equalizer, p) IN
    IF AllZero(ix.exact_output_amounts) \/ ix.maximum_burn_amount = 0
       \/ \E i \in Tokens : ix.exact_output_amounts[i] > balances[i]
    THEN ArmErr("InvalidInstructionData")
    ELSE IF Len(accounts) < AccUserLp THEN ArmErr("NotEnoughAccountKeys")
    ELSE IF ~r.ok THEN ArmErr(r.err)
    ELSE IF res.user_amount > ix.maximum_burn_amount THEN ArmErr("OutsideSpecifiedLimits")
    ELSE Arm("Ok",
             <<Burn(accounts[AccUserLp], accounts[AccLpMint], res.user_amount)>>
             \o transfers_out(accounts, ix.exact_output_amounts, 0),
             res.governance_mint_amount, res.latest_depth)

\* DeFiInstruction::RemoveExactOutput; r is what Invariant::remove_exact_output returns
RemoveExactOutput(p, ix, accounts, balances, supply, r) ==
    LET res == result_from_equalized(r, p.lp_decimal_equalizer, p) IN
    IF AllZero(ix.exact_output_amounts) \/ ix.maximum_burn_amount = 0
       \/ \E i \in Tokens : ix.exact_output_amounts[i] >= balances[i]
    THEN ArmErr("InvalidInstructionData")
    ELSE IF Len(accounts) < AccUserLp THEN ArmErr("NotEnoughAccountKeys")
    ELSE IF ~r.ok THEN ArmErr(r.err)
    ELSE IF res.user_amount > ix.maximum_burn_amount THEN ArmErr("OutsideSpecifiedLimits")
    ELSE Arm("Ok",
             <<Burn(accounts[AccUserLp], accounts[AccLpMint], res.user_amount)>>
             \o transfers_out(accounts, ix.exact_output_amounts, 0),
             res.governance_mint_amount, res.latest_depth)

defi_arm(p, ix, accounts, balances, supply, r) ==
    CASE ix.kind = "Add" -> Add(p, ix, accounts, balances, supply, r)
      [] ix.kind = "RemoveUniform" -> RemoveUniform(p, ix, accounts, balances, supply)
      [] ix.kind = "SwapExactInput" -> SwapExactInput(p, ix, accounts, balances, supply, r)
      [] ix.kind = "SwapExactOutput" -> SwapExactOutput(p, ix, accounts, balances, supply, r)
      [] ix.kind = "RemoveExactBurn" -> RemoveExactBurn(p, ix, accounts, balances, supply, r)
      [] ix.kind = "RemoveExactOutput" -> RemoveExactOutput(p, ix, accounts, balances, supply, r)

DefiErr(err, p, balances, supply) ==
    [result |-> err, pool |-> p, effects |-> <<>>, balances |-> balances, supply |-> supply]

\* process_defi_instruction writing previous_depth before its token program calls
process_defi_instruction_writes_early(p, ix, accounts, balances, supply, r, user_ok) ==
    IF Len(accounts) < 1 THEN DefiErr("NotEnoughAccountKeys", p, balances, supply)
    ELSE IF check_and_deserialize_pool_state(accounts[1], p) # "Ok"
    THEN DefiErr(check_and_deserialize_pool_state(accounts[1], p), p, balances, supply)
    ELSE IF pause_gate(p, ix) # "Ok" THEN DefiErr(pause_gate(p, ix), p, balances, supply)
    ELSE IF defi_accounts_err(p, accounts) # "Ok"
    THEN DefiErr(defi_accounts_err(p, accounts), p, balances, supply)
    ELSE LET arm == defi_arm(p, ix, accounts, balances, supply, r) IN
         IF arm.err # "Ok" THEN DefiErr(arm.err, p, balances, supply)
         ELSE LET run == run_calls(arm.plan \o governance_mint(accounts, arm.governance_mint_amount),
                                   1, <<>>, balances, supply, user_ok) IN
              IF run.result # "Ok"
              THEN [result |-> run.result,
                    pool |-> [p EXCEPT !.previous_depth = arm.latest_depth],
                    effects |-> run.effects,
                    balances |-> balances, supply |-> supply]
              ELSE [result |-> "Ok",
                    pool |-> [p EXCEPT !.previous_depth = arm.latest_depth],
                    effects |-> run.effects,
                    balances |-> run.balances, supply |-> run.supply]

\* mutant: process_defi_instruction leaving previous_depth as it was
process_defi_instruction_keeps_depth(p, ix, accounts, balances, supply, r, user_ok) ==
    IF Len(accounts) < 1 THEN DefiErr("NotEnoughAccountKeys", p, balances, supply)
    ELSE IF check_and_deserialize_pool_state(accounts[1], p) # "Ok"
    THEN DefiErr(check_and_deserialize_pool_state(accounts[1], p), p, balances, supply)
    ELSE IF pause_gate(p, ix) # "Ok" THEN DefiErr(pause_gate(p, ix), p, balances, supply)
    ELSE IF defi_accounts_err(p, accounts) # "Ok"
    THEN DefiErr(defi_accounts_err(p, accounts), p, balances, supply)
    ELSE LET arm == defi_arm(p, ix, accounts, balances, supply, r) IN
         IF arm.err # "Ok" THEN DefiErr(arm.err, p, balances, supply)
         ELSE LET run == run_calls(arm.plan \o governance_mint(accounts, arm.governance_mint_amount),
                                   1, <<>>, balances, supply, user_ok) IN
              IF run.result # "Ok"
              THEN [result |-> run.result, pool |-> p, effects |-> run.effects,
                    balances |-> balances, supply |-> supply]
              ELSE [result |-> "Ok",
                    pool |-> p,
                    effects |-> run.effects,
                    balances |-> run.balances, supply |-> run.supply]

\* the whole handler: the record and the ledger it leaves, and the calls it
\* made; a failed instruction is rolled back by the host, calls included
process_defi_instruction(p, ix, accounts, balances, supply, r, user_ok) ==
    IF Len(accounts) < 1 THEN DefiErr("NotEnoughAccountKeys", p, balances, supply)
    ELSE IF check_and_deserialize_pool_state(accounts[1], p) # "Ok"
    THEN DefiErr(check_and_deserialize_pool_state(accounts[1], p), p, balances, supply)
    ELSE IF pause_gate(p, ix) # "Ok" THEN DefiErr(pause_gate(p, ix), p, balances, supply)
    ELSE IF defi_accounts_err(p, accounts) # "Ok"
    THEN DefiErr(defi_accounts_err(p, accounts), p, balances, supply)
    ELSE LET arm == defi_arm(p, ix, accounts, balances, supply, r) IN
         IF arm.err # "Ok" THEN DefiErr(arm.err, p, balances, supply)
         ELSE LET run == run_calls(arm.plan \o governance_mint(accounts, arm.governance_mint_amount),
                                   1, <<>>, balances, supply, user_ok) IN
              IF run.result # "Ok"
              THEN [result |-> run.result, pool |-> p, effects |-> run.effects,
                    balances |-> balances, supply |-> supply]
              ELSE [result |-> "Ok",
                    pool |-> [p EXCEPT !.previous_depth = arm.latest_depth],
                    effects |-> run.effects,
                    balances |-> run.balances, supply |-> run.supply]

\* ------------------------------------------------------- Invariant solver
InvariantOk(u, g, d) ==
    [ok |-> TRUE, err |-> "Ok", user_amount |-> u, governance_mint_amount |-> g,
     latest_depth |-> d]
InvariantErr(e) ==
    [ok |-> FALSE, err |-> e, user_amount |-> 0, governance_mint_amount |-> 0,
     latest_depth |-> 0]

\* the equalizer of the amount the solver returns to the user
user_equalizer(p, ix) ==
    CASE ix.kind \in {"Add", "RemoveExactOutput", "RemoveUniform"} -> p.lp_decimal_equalizer
      [] ix.kind \in {"SwapExactInput", "RemoveExactBurn"} ->
            IF ix.output_token_index < TOKEN_COUNT
            THEN p.token_decimal_equalizers[ix.output_token_index] ELSE 0
      [] ix.kind = "SwapExactOutput" ->
            IF ix.input_token_index < TOKEN_COUNT
            THEN p.token_decimal_equalizers[ix.input_token_index] ELSE 0

\* equalized amounts the solver may return: whole raw units up to MaxAmount
\* and, where the equalized scale is finer, the half units between them
SolverAmounts(e) ==
    {to_equalized(a, e) : a \in 0 .. MaxAmount}
    \cup (IF e = 0 THEN {}
          ELSE {to_equalized(a, e) + 5 * ten_to_the(e - 1) : a \in 0 .. (MaxAmount - 1)})

\* the vault balances an instruction aims at, given the raw user amount u
target_balances(ix, balances, u) ==
    [i \in Tokens |->
        CASE ix.kind = "Add" -> balances[i] + ix.input_amounts[i]
          [] ix.kind = "SwapExactInput" ->
                IF i = ix.output_token_index THEN Max2(0, balances[i] - u)
                ELSE balances[i] + ix.exact_input_amounts[i]
          [] ix.kind = "SwapExactOutput" ->
                IF i = ix.input_token_index THEN balances[i] + u
                ELSE Max2(0, balances[i] - ix.exact_output_amounts[i])
          [] ix.kind = "RemoveExactBurn" ->
                IF i = ix.output_token_index THEN Max2(0, balances[i] - u) ELSE balances[i]
          [] ix.kind = "RemoveExactOutput" -> Max2(0, balances[i] - ix.exact_output_amounts[i])
          [] OTHER -> balances[i]]

RECURSIVE SumTo(_, _)
SumTo(f, i) == IF i = 0 THEN 0 ELSE f[i - 1] + SumTo(f, i - 1)

\* the depth of balances B is their sum when they are balanced and lies
\* below it when they are not
Depths(p, B) ==
    LET E == array_equalize(B, p)
        s == SumTo(E, TOKEN_COUNT)
    IN  IF \A i, j \in Tokens : E[i] = E[j] THEN {s} ELSE {Max2(0, s - 1)}

\* what an entry point of Invariant may return for this instruction: an error,
\* or (user_amount, governance_mint_amount, latest_depth) in equalized units
Invariant_results(p, ix, balances, supply) ==
    LET e == user_equalizer(p, ix)
        gov == IF p.governance_fee = 0 THEN {0}
               ELSE {0, to_equalized(1, p.lp_decimal_equalizer)}
    IN  {InvariantErr("DidNotConverge")}
        \cup (IF ix.kind = "Add" /\ supply = 0
              THEN {InvariantOk(d, 0, d) : d \in Depths(p, target_balances(ix, balances, 0))}
              ELSE UNION {{InvariantOk(u, g, d) :
                              g \in gov,
                              d \in Depths(p, target_balances(ix, balances,
                                                              from_equalized(u, e)))} :
                          u \in SolverAmounts(e)})

\* ------------------------------------------------------------------ inputs
Times == {k * ENACT_DELAY + j : k \in 0 .. MaxDelays, j \in 1 .. 2}
Fees == 0 .. FeeDen
AmpValues == {0, 10, 11}
Amounts == 0 .. MaxAmount
AmountArrays == [Tokens -> Amounts]
Limits == {0, MaxAmount}
Indexes == 0 .. TOKEN_COUNT

UserTokenKey(i) == CASE i = 0 -> "user_tok0" [] i = 1 -> "user_tok1" [] OTHER -> "user_tok2"

\* the keys of an array of TOKEN_COUNT accounts, in order
KeysOf(f) == [j \in 1 .. TOKEN_COUNT |-> f[j - 1]]

\* the accounts create_init_ix lists
InitAccounts(lp_mint, mints, vaults, gov, gov_fee) ==
    <<PoolKey, lp_mint>> \o mints \o vaults \o <<gov, gov_fee>>
GoodMints == KeysOf([i \in Tokens |-> TokenMintKey(i)])
GoodVaults == KeysOf([i \in Tokens |-> VaultKey(i)])
GoodInitAccounts == InitAccounts(LpMintKey, GoodMints, GoodVaults, "govA", "fee_acct")
FeeInitAccountLists ==
    {InitAccounts(LpMintKey, GoodMints, GoodVaults, "govA", f) :
        f \in {ZeroKey, "fee_acct", "user_tok0"}}
BadInitAccountLists ==
    {InitAccounts(m, GoodMints, GoodVaults, "govA", "fee_acct") :
        m \in {"lp_mint_supply", "lp_mint_auth", "lp_mint_frozen", "vault0"}}
    \cup {InitAccounts(LpMintKey, [GoodMints EXCEPT ![1] = "mint_dec15"],
                       GoodVaults, "govA", "fee_acct")}
    \cup {InitAccounts(LpMintKey, GoodMints, [GoodVaults EXCEPT ![TOKEN_COUNT] = v],
                       "govA", "fee_acct") :
            v \in {"vault_owner", "vault_amount", "vault_delegate", "vault_close",
                   "vault0", "user_tok0"}}
    \cup {InitAccounts(LpMintKey, GoodMints, GoodVaults, "fee_acct", "fee_acct"),
          SubSeq(GoodInitAccounts, 1, 3 + 2 * TOKEN_COUNT),
          [GoodInitAccounts EXCEPT ![1] = "other_pool"]}

InitIx(nonce, amp_factor, lp_fee, governance_fee) ==
    [kind |-> "Init", nonce |-> nonce, amp_factor |-> amp_factor,
     lp_fee |-> lp_fee, governance_fee |-> governance_fee]

\* every fee pair with every governance fee account, and one faulty input at
\* a time around an Init that succeeds
InitInputs ==
    {[ix |-> InitIx(GoodNonce, 1, l, g), accounts |-> GoodInitAccounts,
      rent_exempt |-> TRUE] : l \in Fees, g \in Fees}
    \cup {[ix |-> InitIx(GoodNonce, 1, 0, g), accounts |-> a, rent_exempt |-> TRUE] :
            g \in Fees, a \in FeeInitAccountLists}
    \cup {[ix |-> InitIx(GoodNonce, 1, 0, 0), accounts |-> a, rent_exempt |-> TRUE] :
            a \in BadInitAccountLists}
    \cup {[ix |-> InitIx(0, 1, 0, 0), accounts |-> GoodInitAccounts, rent_exempt |-> TRUE],
          [ix |-> InitIx(GoodNonce, 0, 0, 0), accounts |-> GoodInitAccounts,
           rent_exempt |-> TRUE],
          [ix |-> InitIx(GoodNonce, 1, 0, 0), accounts |-> GoodInitAccounts,
           rent_exempt |-> FALSE]}

\* an initialized pool account refuses every Init after the fee and rent checks
InitInputsFor(p) ==
    IF is_initialized(p)
    THEN {[ix |-> InitIx(GoodNonce, 1, l, 0), accounts |-> GoodInitAccounts,
           rent_exempt |-> e] :
            l \in {0, FeeDen}, e \in BOOLEAN}
    ELSE InitInputs

\* the accounts create_defi_ix lists
DefiAccounts(authority, vaults, lp_mint, gov_fee) ==
    <<PoolKey, authority>> \o vaults \o <<lp_mint, gov_fee, "user_auth">>
    \o KeysOf([i \in Tokens |-> UserTokenKey(i)]) \o <<"token_program", "user_lp">>
GoodDefiAccounts(p) ==
    DefiAccounts("authority", GoodVaults, LpMintKey, p.governance_fee_key)
\* the faulty lists the operations are run with: a foreign pool account, a
\* wrong authority, a wrong vault, and a list that ends before the user's LP account
FaultyDefiAccounts(p) ==
    {[GoodDefiAccounts(p) EXCEPT ![1] = "other_pool"],
     DefiAccounts("user_auth", GoodVaults, LpMintKey, p.governance_fee_key),
     DefiAccounts("authority", [GoodVaults EXCEPT ![TOKEN_COUNT] = "user_tok1"],
                  LpMintKey, p.governance_fee_key),
     SubSeq(GoodDefiAccounts(p), 1, AccTokenProgram)}

AddIxs == [kind : {"Add"}, input_amounts : AmountArrays, minimum_mint_amount : Limits]
RemoveUniformIxs ==
    [kind : {"RemoveUniform"}, exact_burn_amount : 0 .. (MaxAmount + 1),
     minimum_output_amounts : [Tokens -> Limits]]
SwapExactInputIxs ==
    [kind : {"SwapExactInput"}, exact_input_amounts : AmountArrays,
     output_token_index : Indexes, minimum_output_amount : Limits]
SwapExactOutputIxs ==
    [kind : {"SwapExactOutput"}, maximum_input_amount : Limits,
     input_token_index : Indexes, exact_output_amounts : AmountArrays]
RemoveExactBurnIxs ==
    [kind : {"RemoveExactBurn"}, exact_burn_amount : Amounts,
     output_token_index : Indexes, minimum_output_amount : Limits]
RemoveExactOutputIxs ==
    [kind : {"RemoveExactOutput"}, maximum_burn_amount : Limits,
     exact_output_amounts : AmountArrays]
GatedIxs ==
    AddIxs \cup SwapExactInputIxs \cup SwapExactOutputIxs
    \cup RemoveExactBurnIxs \cup RemoveExactOutputIxs
DefiIxs == GatedIxs \cup RemoveUniformIxs

\* whether the arm of ix hands its inputs to the solver
calls_solver(p, ix, accounts, balances, supply) ==
    /\ ix.kind # "RemoveUniform"
    /\ defi_arm(p, ix, accounts, balances, supply, InvariantErr("probe")).err = "probe"

\* what the solver and the token program may answer to one instruction
DefiEnvs(p, ix, accounts, balances, supply) ==
    IF calls_solver(p, ix, accounts, balances, supply)
    THEN {[r |-> r, user_ok |-> TRUE] : r \in Invariant_results(p, ix, balances, supply)}
         \cup {[r |-> r, user_ok |-> FALSE] :
                 r \in {x \in Invariant_results(p, ix, balances, supply) :
                           /\ x.ok
                           /\ x.user_amount = to_equalized(1, user_equalizer(p, ix))
                           /\ x.governance_mint_amount = 0}}
    ELSE {[r |-> InvariantErr("DidNotConverge"), user_ok |-> u] :
            u \in (IF ix.kind = "RemoveUniform" THEN BOOLEAN ELSE {TRUE})}

\* the accounts create_governance_ix lists, and who signed
GovAccounts(g, third) == <<PoolKey, g>> \o third
GovEnv(accounts, signers) == [accounts |-> accounts, signers |-> signers]
ThirdAccounts == {<<>>, <<"fee_acct">>, <<"user_tok0">>, <<"govB">>}
GovEnvs ==
    {GovEnv(GovAccounts(g, third), s) :
        g \in GovKeys \cup {ZeroKey}, third \in {<<>>, <<"fee_acct">>},
        s \in {{}, {"govA"}, {"govB"}}}
    \cup {GovEnv(<<PoolKey>>, {}), GovEnv(<<"other_pool", "govA">>, {"govA"}),
          GovEnv(<<>>, {})}

\* a governance account that did not sign, another signer's own account, the
\* governance account with another signer only, and short or foreign lists
BadGovEnvs(p) ==
    {GovEnv(GovAccounts(p.governance_key, <<>>), {})}
    \cup {GovEnv(GovAccounts(g, <<>>), {g}) : g \in GovKeys \ {p.governance_key}}
    \cup {GovEnv(GovAccounts(g, <<>>), {p.governance_key} \ {ZeroKey}) :
            g \in GovKeys \ {p.governance_key}}
    \cup {GovEnv(GovAccounts(p.governance_key, <<>>), {g}) :
            g \in GovKeys \ {p.governance_key}}
    \cup {GovEnv(<<PoolKey>>, {p.governance_key} \ {ZeroKey}),
          GovEnv(<<"other_pool", p.governance_key>>, {p.governance_key} \ {ZeroKey})}

PrepareFeeChangeIxs == [kind : {"PrepareFeeChange"}, lp_fee : Fees, governance_fee : Fees]
EnactFeeChangeIxs == [kind : {"EnactFeeChange"}]
PrepareGovernanceTransitionIxs ==
    [kind : {"PrepareGovernanceTransition"}, upcoming_governance_key : GovKeys \cup {ZeroKey}]
EnactGovernanceTransitionIxs == [kind : {"EnactGovernanceTransition"}]
ChangeGovernanceFeeAccountIxs ==
    [kind : {"ChangeGovernanceFeeAccount"},
     governance_fee_key : {ZeroKey, "fee_acct", "user_tok0", "govB"}]
AdjustAmpFactorIxs(t) ==
    [kind : {"AdjustAmpFactor"}, target_value : AmpValues,
     target_ts : {t + MIN_RAMP_DURATION - 1, t + MIN_RAMP_DURATION}]
SetPausedIxs == [kind : {"SetPaused"}, paused : BOOLEAN]
GovIxs(t) ==
    PrepareFeeChangeIxs \cup EnactFeeChangeIxs \cup PrepareGovernanceTransitionIxs
    \cup EnactGovernanceTransitionIxs \cup ChangeGovernanceFeeAccountIxs
    \cup AdjustAmpFactorIxs(t) \cup SetPausedIxs

\* the governance account the record names, signing (nobody holds a key to
\* sign for the zero key), with the third account ChangeGovernanceFeeAccount reads
SignedGovEnvs(p, ix) ==
    {GovEnv(GovAccounts(p.governance_key, third), {p.governance_key} \ {ZeroKey}) :
        third \in (IF ix.kind = "ChangeGovernanceFeeAccount" THEN ThirdAccounts ELSE {<<>>})}

\* ------------------------------------------------------------------- state
VARIABLES
    pool,               \* the PoolState held by the pool account
    now,                \* Clock::get().unix_timestamp
    pool_balances,      \* amount of each pool token account
    lp_total_supply,    \* supply of the LP mint
    pending,            \* the prepare still waiting to be enacted, per kind: the clock
                        \* time it was made at (0: none) and the key or fees it named
    lastOp,             \* the instruction processed last: kind, accounts, signers
    result,             \* what it returned
    effects             \* the token program calls it made, in order

vars == <<pool, now, pool_balances, lp_total_supply, pending, lastOp, result, effects>>

Op(kind, accounts, signers) == [kind |-> kind, accounts |-> accounts, signers |-> signers]

Init ==
    /\ pool = UninitializedPool
    /\ now = 1
    /\ pool_balances = [i \in Tokens |-> 0]
    /\ lp_total_supply = 0
    /\ pending = [fee |-> 0, gov |-> 0, key |-> ZeroKey, lp_fee |-> 0, governance_fee |-> 0]
    /\ lastOp = Op("None", <<>>, {})
    /\ result = "None"
    /\ effects = <<>>

\* the clock moves forward between instructions
Tick ==
    /\ \E t \in Times : t > now /\ now' = t
    /\ lastOp' = Op("Tick", <<>>, {})
    /\ result' = "None"
    /\ effects' = <<>>
    /\ UNCHANGED <<pool, pool_balances, lp_total_supply, pending>>

CallInit ==
    \E in \in InitInputsFor(pool) :
        \E out \in {process_init(pool, in.ix, in.accounts, in.rent_exempt,
                                 pool_balances, lp_total_supply)} :
        /\ pool' = out.pool
        /\ result' = out.result
        /\ lastOp' = Op("Init", in.accounts, {})
        /\ effects' = <<>>
        /\ UNCHANGED <<now, pool_balances, lp_total_supply, pending>>

\* one DeFi instruction of ixs with the accounts the record names, or the
\* instruction rep with a faulty account list
DefiCallWithin(ixs, rep, max) ==
    \E ix \in ixs :
        \E accounts \in {GoodDefiAccounts(pool)}
                         \cup (IF ix = rep THEN FaultyDefiAccounts(pool) ELSE {}) :
            \E env \in DefiEnvs(pool, ix, accounts, pool_balances, lp_total_supply) :
                \E out \in {process_defi_instruction(pool, ix, accounts, pool_balances,
                                                     lp_total_supply, env.r, env.user_ok)} :
                /\ \A i \in Tokens : out.balances[i] <= max
                /\ out.supply <= max
                /\ pool' = out.pool
                /\ pool_balances' = out.balances
                /\ lp_total_supply' = out.supply
                /\ effects' = out.effects
                /\ result' = out.result
                /\ lastOp' = Op(ix.kind, accounts, {})
                /\ UNCHANGED <<now, pending>>

DefiCall(ixs, rep) == DefiCallWithin(ixs, rep, MaxBalance)

Ones == [i \in Tokens |-> 1]
Zeros == [i \in Tokens |-> 0]

CallAdd ==
    /\ DefiCall(AddIxs,
             [kind |-> "Add", input_amounts |-> Ones, minimum_mint_amount |-> 0])
CallRemoveUniform ==
    /\ DefiCall(RemoveUniformIxs,
             [kind |-> "RemoveUniform", exact_burn_amount |-> 1,
              minimum_output_amounts |-> Zeros])
CallSwapExactInput ==
    /\ DefiCall(SwapExactInputIxs,
             [kind |-> "SwapExactInput", exact_input_amounts |-> [Zeros EXCEPT ![0] = 1],
              output_token_index |-> 1, minimum_output_amount |-> 0])
CallSwapExactOutput ==
    /\ DefiCall(SwapExactOutputIxs,
             [kind |-> "SwapExactOutput", maximum_input_amount |-> MaxAmount,
              input_token_index |-> 0, exact_output_amounts |-> [Zeros EXCEPT ![1] = 1]])
CallRemoveExactBurn ==
    /\ DefiCall(RemoveExactBurnIxs,
             [kind |-> "RemoveExactBurn", exact_burn_amount |-> 1,
              output_token_index |-> 0, minimum_output_amount |-> 0])
CallRemoveExactOutput ==
    /\ DefiCall(RemoveExactOutputIxs,
             [kind |-> "RemoveExactOutput", maximum_burn_amount |-> MaxAmount,
              exact_output_amounts |-> [Zeros EXCEPT ![0] = 1]])

\* the prepare a governance instruction leaves waiting
pending_after(ix, res, t) ==
    IF res # "Ok" THEN pending
    ELSE CASE ix.kind = "PrepareFeeChange" ->
                [pending EXCEPT !.fee = t, !.lp_fee = ix.lp_fee,
                                !.governance_fee = ix.governance_fee]
           [] ix.kind = "EnactFeeChange" ->
                [pending EXCEPT !.fee = 0, !.lp_fee = 0, !.governance_fee = 0]
           [] ix.kind = "PrepareGovernanceTransition" ->
                [pending EXCEPT !.gov = t, !.key = ix.upcoming_governance_key]
           [] ix.kind = "EnactGovernanceTransition" ->
                [pending EXCEPT !.gov = 0, !.key = ZeroKey]
           [] OTHER -> pending

\* one governance instruction of ixs signed by the governance key of the
\* record, or the instruction rep without that signature
GovCall(ixs, rep) ==
    \E ix \in ixs :
        \E env \in SignedGovEnvs(pool, ix) \cup (IF ix = rep THEN BadGovEnvs(pool) ELSE {}) :
            \E out \in {process_governance_instruction(pool, ix, env.accounts,
                                                       env.signers, now)} :
            /\ pool' = out.pool
            /\ result' = out.result
            /\ lastOp' = Op(ix.kind, env.accounts, env.signers)
            /\ effects' = <<>>
            /\ pending' = pending_after(ix, out.result, now)
            /\ UNCHANGED <<now, pool_balances, lp_total_supply>>

CallPrepareFeeChange ==
    /\ GovCall(PrepareFeeChangeIxs,
            [kind |-> "PrepareFeeChange", lp_fee |-> 0, governance_fee |-> 1])
CallEnactFeeChange ==
    /\ GovCall(EnactFeeChangeIxs, [kind |-> "EnactFeeChange"])
CallPrepareGovernanceTransition ==
    /\ GovCall(PrepareGovernanceTransitionIxs,
            [kind |-> "PrepareGovernanceTransition", upcoming_governance_key |-> "govB"])
CallEnactGovernanceTransition ==
    /\ GovCall(EnactGovernanceTransitionIxs, [kind |-> "EnactGovernanceTransition"])
CallChangeGovernanceFeeAccount ==
    /\ GovCall(ChangeGovernanceFeeAccountIxs,
            [kind |-> "ChangeGovernanceFeeAccount", governance_fee_key |-> "fee_acct"])
CallAdjustAmpFactor ==
    /\ GovCall(AdjustAmpFactorIxs(now),
            [kind |-> "AdjustAmpFactor", target_value |-> 10,
             target_ts |-> now + MIN_RAMP_DURATION])
CallSetPaused ==
    /\ GovCall(SetPausedIxs, [kind |-> "SetPaused", paused |-> TRUE])

GovNext ==
    \/ CallPrepareFeeChange
    \/ CallEnactFeeChange
    \/ CallPrepareGovernanceTransition
    \/ CallEnactGovernanceTransition
    \/ CallChangeGovernanceFeeAccount
    \/ CallAdjustAmpFactor
    \/ CallSetPaused

DefiNext ==
    \/ CallAdd
    \/ CallRemoveUniform
    \/ CallSwapExactInput
    \/ CallSwapExactOutput
    \/ CallRemoveExactBurn
    \/ CallRemoveExactOutput

Next == CallInit \/ Tick \/ GovNext \/ DefiNext

Spec == Init /\ [][Next]_vars

\* the fee engine: Init, the clock, and the instructions that write the fees
\* and the governance fee account
FeeNext ==
    \/ CallInit
    \/ Tick
    \/ CallPrepareFeeChange
    \/ CallEnactFeeChange
    \/ CallChangeGovernanceFeeAccount
SpecFee == Init /\ [][FeeNext]_vars

\* the governance key engine: Init, the clock, the key transition, and the
\* pause switch as an instruction to present keys to
KeyNext ==
    \/ CallInit
    \/ Tick
    \/ CallPrepareGovernanceTransition
    \/ CallEnactGovernanceTransition
    \/ CallSetPaused
SpecKey == Init /\ [][KeyNext]_vars

\* both timers: Init, the clock, and the prepare and enact instructions
EnactNext ==
    \/ CallInit
    \/ Tick
    \/ CallPrepareFeeChange
    \/ CallEnactFeeChange
    \/ CallPrepareGovernanceTransition
    \/ CallEnactGovernanceTransition
SpecEnact == Init /\ [][EnactNext]_vars

\* the operation engine alone: Init, the pause switch and the DeFi instructions
SpecDefi == Init /\ [][CallInit \/ CallSetPaused \/ DefiNext]_vars

\* deposits and uniform removals on a pool that may hold MaxDeepBalance
CallAddDeep ==
    /\ DefiCallWithin(AddIxs,
                      [kind |-> "Add", input_amounts |-> Ones, minimum_mint_amount |-> 0],
                      MaxDeepBalance)
CallRemoveUniformDeep ==
    /\ DefiCallWithin(RemoveUniformIxs,
                      [kind |-> "RemoveUniform", exact_burn_amount |-> 1,
                       minimum_output_amounts |-> Zeros],
                      MaxDeepBalance)

SpecUniform == Init /\ [][CallInit \/ CallAddDeep \/ CallRemoveUniformDeep]_vars

\* ------------------------------------------------------------ pause gate
GatedKinds ==
    {"Add", "SwapExactInput", "SwapExactOutput", "RemoveExactBurn", "RemoveExactOutput"}

\* the instruction processed by this step names the pool account first
addresses_pool(op) == Len(op.accounts) >= 1 /\ op.accounts[1] = PoolKey

\* C1: while the record is paused, Add, SwapExactInput, SwapExactOutput,
\* RemoveExactBurn and RemoveExactOutput on the pool fail with PoolIsPaused,
\* whatever their arguments, their other accounts and the answers the solver
\* and the token program would give; no transfer, mint or burn is emitted and
\* the record and the ledger stay as they were.
C1_PauseGate ==
    [][(pool.is_paused /\ lastOp'.kind \in GatedKinds /\ addresses_pool(lastOp'))
        => /\ result' = "PoolIsPaused"
           /\ effects' = <<>>
           /\ pool' = pool
           /\ pool_balances' = pool_balances
           /\ lp_total_supply' = lp_total_supply]_vars

\* a paused pool that holds funds has refused a swap
C1_Witness ==
    /\ pool.is_paused
    /\ lp_total_supply > 0
    /\ lastOp.kind = "SwapExactInput"
    /\ addresses_pool(lastOp)
    /\ result = "PoolIsPaused"

\* what RemoveUniform computes for token i
uniform_output(ix, i) ==
    uniform_output_amount(pool_balances[i], user_share(ix.exact_burn_amount, lp_total_supply))

\* C2: while the record is paused, a RemoveUniform with 1 <= burn <= LP supply,
\* the pool's accounts and minimum outputs not above the computed outputs
\* succeeds, and with the same transfers, the same burn, the same ledger and
\* the same new previous_depth as the same instruction on the unpaused record.
C2_RemoveUniformBypassesPause ==
    pool.is_paused =>
        \A ix \in RemoveUniformIxs :
            LET paused == process_defi_instruction(
                              pool, ix, GoodDefiAccounts(pool), pool_balances,
                              lp_total_supply, InvariantErr("DidNotConverge"), TRUE)
                unpaused == process_defi_instruction(
                              [pool EXCEPT !.is_paused = FALSE], ix, GoodDefiAccounts(pool),
                              pool_balances, lp_total_supply,
                              InvariantErr("DidNotConverge"), TRUE)
            IN  (/\ 1 <= ix.exact_burn_amount
                 /\ ix.exact_burn_amount <= lp_total_supply
                 /\ \A i \in Tokens : ix.minimum_output_amounts[i] <= uniform_output(ix, i))
                => /\ paused.result = "Ok"
                   /\ unpaused.result = "Ok"
                   /\ paused.effects = unpaused.effects
                   /\ paused.effects # <<>>
                   /\ paused.balances = unpaused.balances
                   /\ paused.supply = unpaused.supply
                   /\ paused.pool.previous_depth = unpaused.pool.previous_depth
                   /\ paused.pool = [unpaused.pool EXCEPT !.is_paused = TRUE]

\* a paused pool has paid out a uniform removal and burned the LP tokens
C2_Witness ==
    /\ pool.is_paused
    /\ lastOp.kind = "RemoveUniform"
    /\ result = "Ok"
    /\ \E n \in 1 .. Len(effects) : effects[n].op = "transfer" /\ effects[n].amount > 0
    /\ effects[Len(effects)].op = "burn"

\* --------------------------------------------------------- timed changes
GovernanceKinds ==
    {"PrepareFeeChange", "EnactFeeChange", "PrepareGovernanceTransition",
     "EnactGovernanceTransition", "ChangeGovernanceFeeAccount", "AdjustAmpFactor",
     "SetPaused"}

\* the instruction names the initialized pool account and the governance
\* account of its record p, and that account signed
signed_by_governance(op, p) ==
    /\ is_initialized(p)
    /\ Len(op.accounts) >= 2
    /\ op.accounts[1] = PoolKey
    /\ op.accounts[2] = p.governance_key
    /\ p.governance_key \in op.signers

\* a nonzero prepared governance fee waits without a governance fee account
lacks_fee_account(p) == p.prepared_governance_fee > 0 /\ p.governance_fee_key = ZeroKey

\* C3 as stated: with a PrepareFeeChange made at pending.fee still waiting, a
\* governance-signed EnactFeeChange fails with InsufficientDelay before
\* pending.fee + ENACT_DELAY and succeeds from then on.
C3_FeeEnactSucceedsAfterDelay ==
    [][(lastOp'.kind = "EnactFeeChange" /\ signed_by_governance(lastOp', pool)
        /\ pending.fee # 0)
        => result' = (IF now < pending.fee + ENACT_DELAY THEN "InsufficientDelay"
                      ELSE "Ok")]_vars

\* C3 amended: with a PrepareFeeChange made at pending.fee still waiting, a
\* governance-signed EnactFeeChange fails with InsufficientDelay before
\* pending.fee + ENACT_DELAY; from then on it succeeds when the prepared
\* governance fee is zero or a governance fee account is set, and fails with
\* InvalidGovernanceFeeAccount when neither is.
C3_FeeEnactTimeGate ==
    [][(lastOp'.kind = "EnactFeeChange" /\ signed_by_governance(lastOp', pool)
        /\ pending.fee # 0)
        => result' = (IF now < pending.fee + ENACT_DELAY THEN "InsufficientDelay"
                      ELSE IF lacks_fee_account(pool) THEN "InvalidGovernanceFeeAccount"
                      ELSE "Ok")]_vars

\* a fee change prepared at time 1 with a governance fee has been enacted at
\* the first second the delay allows
C3_Witness ==
    /\ lastOp.kind = "EnactFeeChange"
    /\ result = "Ok"
    /\ now = 1 + ENACT_DELAY
    /\ pool.governance_fee > 0

\* C4: with a PrepareGovernanceTransition made at pending.gov still waiting, an
\* EnactGovernanceTransition signed by the current governance key fails with
\* InsufficientDelay before pending.gov + ENACT_DELAY and succeeds from then on.
C4_KeyEnactTimeGate ==
    [][(lastOp'.kind = "EnactGovernanceTransition" /\ signed_by_governance(lastOp', pool)
        /\ pending.gov # 0)
        => result' = (IF now < pending.gov + ENACT_DELAY THEN "InsufficientDelay"
                      ELSE "Ok")]_vars

\* a transition prepared at time 2 has been refused one second before its
\* delay has passed
C4_Witness ==
    /\ lastOp.kind = "EnactGovernanceTransition"
    /\ result = "InsufficientDelay"
    /\ pending.gov = 2
    /\ now = 1 + ENACT_DELAY

\* C5: a governance-signed EnactFeeChange fails with InvalidEnact whenever
\* fee_transition_ts = 0, and EnactGovernanceTransition whenever
\* governance_transition_ts = 0, leaving the record unchanged; the timestamp is 0
\* right after Init and right after a successful enact of the same kind.
C5_EnactWithoutPending ==
    [][/\ (lastOp'.kind = "EnactFeeChange" /\ signed_by_governance(lastOp', pool)
           /\ pool.fee_transition_ts = 0)
          => (result' = "InvalidEnact" /\ pool' = pool)
       /\ (lastOp'.kind = "EnactGovernanceTransition"
           /\ signed_by_governance(lastOp', pool)
           /\ pool.governance_transition_ts = 0)
          => (result' = "InvalidEnact" /\ pool' = pool)
       /\ (lastOp'.kind \in {"Init", "EnactFeeChange"} /\ result' = "Ok")
          => pool'.fee_transition_ts = 0
       /\ (lastOp'.kind \in {"Init", "EnactGovernanceTransition"} /\ result' = "Ok")
          => pool'.governance_transition_ts = 0]_vars

\* the key transition to govB has been enacted, and an EnactGovernanceTransition
\* signed by govB has then been refused
C5_Witness ==
    /\ lastOp.kind = "EnactGovernanceTransition"
    /\ signed_by_governance(lastOp, pool)
    /\ pool.governance_key = "govB"
    /\ result = "InvalidEnact"

\* C6: a successful EnactFeeChange sets lp_fee and governance_fee to the
\* prepared fees held just before it, zeroes both prepared fees and
\* fee_transition_ts, and changes nothing else; a governance-signed
\* EnactFeeChange whose delay has passed fails with InvalidGovernanceFeeAccount,
\* changing nothing, when the prepared governance fee is positive and the
\* governance fee key is the zero key.
C6_EnactFeeChangeEffect ==
    [][lastOp'.kind = "EnactFeeChange"
        => /\ result' = "Ok"
              => pool' = [pool EXCEPT !.lp_fee = pool.prepared_lp_fee,
                                      !.governance_fee = pool.prepared_governance_fee,
                                      !.prepared_lp_fee = 0,
                                      !.prepared_governance_fee = 0,
                                      !.fee_transition_ts = 0]
           /\ lacks_fee_account(pool) => (result' # "Ok" /\ pool' = pool)
           /\ (signed_by_governance(lastOp', pool) /\ lacks_fee_account(pool)
               /\ pool.fee_transition_ts # 0 /\ pool.fee_transition_ts <= now)
              => result' = "InvalidGovernanceFeeAccount"]_vars

\* a prepared governance fee has met the zero governance fee key at enact time
C6_Witness ==
    /\ lastOp.kind = "EnactFeeChange"
    /\ result = "InvalidGovernanceFeeAccount"
    /\ lacks_fee_account(pool)
    /\ pending.fee # 0
    /\ now >= pending.fee + ENACT_DELAY

\* ------------------------------------------------------- governance key
\* the instruction names the pool account and some governance account
presents_key(op) == Len(op.accounts) >= 2 /\ op.accounts[1] = PoolKey

\* C7: a successful EnactGovernanceTransition is signed by the outgoing
\* governance key, sets governance_key to the key the pending
\* PrepareGovernanceTransition named, zeroes prepared_governance_key and
\* governance_transition_ts and changes nothing else; the governance key of an
\* initialized pool changes in no other way, governance instructions presented
\* with a key that is not the record's (the former key, when the transition
\* changed it) fail with InvalidGovernanceAccount, and those signed by the
\* record's key pass the authorization.
C7_EnactGovernanceTransitionEffect ==
    [][/\ (lastOp'.kind = "EnactGovernanceTransition" /\ result' = "Ok")
          => /\ signed_by_governance(lastOp', pool)
             /\ pool' = [pool EXCEPT !.governance_key = pending.key,
                                     !.prepared_governance_key = ZeroKey,
                                     !.governance_transition_ts = 0]
       /\ (is_initialized(pool) /\ pool'.governance_key # pool.governance_key)
          => (lastOp'.kind = "EnactGovernanceTransition" /\ result' = "Ok")
       /\ (is_initialized(pool) /\ lastOp'.kind \in GovernanceKinds /\ presents_key(lastOp'))
          => /\ lastOp'.accounts[2] # pool.governance_key
                => (result' = "InvalidGovernanceAccount" /\ pool' = pool)
             /\ signed_by_governance(lastOp', pool)
                => result' \notin {"InvalidGovernanceAccount", "MissingRequiredSignature"}]_vars

\* after the transition from govA to govB, an instruction signed by govA has
\* been refused
C7_Witness ==
    /\ pool.governance_key = "govB"
    /\ lastOp.kind = "SetPaused"
    /\ presents_key(lastOp)
    /\ lastOp.accounts[2] = "govA"
    /\ "govA" \in lastOp.signers
    /\ result = "InvalidGovernanceAccount"

\* -------------------------------------------------------------------- fees
\* the four fee fields of a record
fee_fields(p) ==
    <<p.lp_fee, p.governance_fee, p.prepared_lp_fee, p.prepared_governance_fee>>

\* C8: the record of an initialized pool has lp_fee + governance_fee < 1 and
\* prepared_lp_fee + prepared_governance_fee < 1 (fees are counted in units of
\* 1 / FeeDen); Init and a governance-signed PrepareFeeChange whose fees sum to
\* one or more fail with InvalidFeeInput and leave the record as it was; DeFi
\* instructions and the governance instructions other than PrepareFeeChange and
\* EnactFeeChange leave the four fee fields as they were.
C8_FeeInvariant ==
    /\ is_initialized(pool)
       => /\ pool.lp_fee + pool.governance_fee < FeeDen
          /\ pool.prepared_lp_fee + pool.prepared_governance_fee < FeeDen
    /\ \A l \in Fees, g \in Fees :
        l + g >= FeeDen
        => /\ \A a \in FeeInitAccountLists :
                LET out == process_init(pool, InitIx(GoodNonce, 1, l, g), a, TRUE,
                                        pool_balances, lp_total_supply)
                IN  out.result = "InvalidFeeInput" /\ out.pool = pool
           /\ is_initialized(pool)
              => LET ix == [kind |-> "PrepareFeeChange", lp_fee |-> l, governance_fee |-> g]
                 IN  \A env \in SignedGovEnvs(pool, ix) :
                        LET out == process_governance_instruction(
                                       pool, ix, env.accounts, env.signers, now)
                        IN  out.result = "InvalidFeeInput" /\ out.pool = pool
    /\ \A ix \in DefiIxs :
        \A env \in DefiEnvs(pool, ix, GoodDefiAccounts(pool), pool_balances,
                            lp_total_supply) :
            fee_fields(process_defi_instruction(
                           pool, ix, GoodDefiAccounts(pool), pool_balances,
                           lp_total_supply, env.r, env.user_ok).pool) = fee_fields(pool)
    /\ \A ix \in GovIxs(now) \ (PrepareFeeChangeIxs \cup EnactFeeChangeIxs) :
        \A env \in SignedGovEnvs(pool, ix) :
            fee_fields(process_governance_instruction(
                           pool, ix, env.accounts, env.signers, now).pool) = fee_fields(pool)

\* a pool that charges an LP fee and waits to enact a governance fee has
\* refused a PrepareFeeChange
C8_Witness ==
    /\ pool.lp_fee > 0
    /\ pool.prepared_governance_fee > 0
    /\ lastOp.kind = "PrepareFeeChange"
    /\ signed_by_governance(lastOp, pool)
    /\ result = "InvalidFeeInput"

\* C9: while the record of an initialized pool charges a governance fee, its
\* governance_fee_key is not the zero key and names a token account whose mint
\* is the record's lp_mint_key.
C9_GovernanceFeeAccount ==
    (is_initialized(pool) /\ pool.governance_fee > 0)
    => /\ pool.governance_fee_key # ZeroKey
       /\ TokenTable(pool.governance_fee_key).is_token
       /\ TokenTable(pool.governance_fee_key).mint = pool.lp_mint_key

\* a pool that charges a governance fee has refused to clear its governance
\* fee account
C9_Witness ==
    /\ pool.governance_fee > 0
    /\ lastOp.kind = "ChangeGovernanceFeeAccount"
    /\ signed_by_governance(lastOp, pool)
    /\ Len(lastOp.accounts) = 2
    /\ result = "InvalidGovernanceFeeAccount"

\* ----------------------------------------------------------- authorization
\* C10: on an initialized pool every governance instruction, of every kind and
\* with every argument, fails with InvalidGovernanceAccount when the governance
\* account presented is not the record's governance_key, and with
\* MissingRequiredSignature when it is but did not sign; the record is
\* unchanged in both cases, so only an instruction signed by the current
\* governance_key changes it.
C10_GovernanceAuthorization ==
    is_initialized(pool)
    => \A ix \in GovIxs(now), env \in GovEnvs :
        presents_key(env)
        => LET out == process_governance_instruction(pool, ix, env.accounts,
                                                     env.signers, now)
           IN  /\ env.accounts[2] # pool.governance_key
                  => (out.result = "InvalidGovernanceAccount" /\ out.pool = pool)
               /\ (env.accounts[2] = pool.governance_key
                   /\ pool.governance_key \notin env.signers)
                  => (out.result = "MissingRequiredSignature" /\ out.pool = pool)
               /\ out.pool # pool
                  => (env.accounts[2] = pool.governance_key
                      /\ pool.governance_key \in env.signers)

\* after the transition to govB, a PrepareGovernanceTransition that names govB
\* without its signature has been refused
C10_Witness ==
    /\ pool.governance_key = "govB"
    /\ lastOp.kind = "PrepareGovernanceTransition"
    /\ presents_key(lastOp)
    /\ lastOp.accounts[2] = "govB"
    /\ "govB" \notin lastOp.signers
    /\ result = "MissingRequiredSignature"

\* -------------------------------------------------------- record atomicity
\* every governance instruction, with every argument, every presented account
\* list and signer set, applied to the record p at time t: a refusal returns p
governance_refusals_keep(p, t) ==
    \A ix \in GovIxs(t) :
        \A env \in GovEnvs \cup SignedGovEnvs(p, ix) :
            LET out == process_governance_instruction(p, ix, env.accounts, env.signers, t)
            IN  out.result # "Ok" => out.pool = p

\* the records one successful prepare at time t leaves from p
prepared_records(p, t) ==
    {process_governance_instruction(p, ix, env.accounts, env.signers, t).pool :
        ix \in PrepareFeeChangeIxs \cup PrepareGovernanceTransitionIxs,
        env \in {GovEnv(GovAccounts(p.governance_key, <<>>), {p.governance_key} \ {ZeroKey})}}

\* the same for the instructions signed by the governance key of p only
signed_refusals_keep(p, t) ==
    \A ix \in GovIxs(t) :
        \A env \in SignedGovEnvs(p, ix) :
            LET out == process_governance_instruction(p, ix, env.accounts, env.signers, t)
            IN  out.result # "Ok" => out.pool = p

\* C11: an Init, a DeFi instruction or a governance instruction that returns an
\* error leaves the pool record exactly as it was, also when token program calls
\* were made before the error. Checked on every instruction a step processes, and
\* in every state on every governance instruction with every argument, on the
\* record itself and on the records a prepare leaves from it, before and after
\* the delay.
C11_RecordAtomicity ==
    /\ [][(lastOp'.kind # "Tick" /\ result' # "Ok") => pool' = pool]_vars
    /\ [](/\ governance_refusals_keep(pool, now)
          /\ \A p1 \in prepared_records(pool, now) :
                \A t \in {now, now + ENACT_DELAY} : signed_refusals_keep(p1, t))

\* a RemoveUniform was refused for its limits after a transfer had been made
C11_Witness ==
    /\ lastOp.kind = "RemoveUniform"
    /\ result = "OutsideSpecifiedLimits"
    /\ Len(effects) >= 1
    /\ pool.previous_depth > 0

\* ------------------------------------------------- order of ledger effects
DefiKinds == GatedKinds \cup {"RemoveUniform"}
RemovalKinds == {"RemoveUniform", "RemoveExactBurn", "RemoveExactOutput"}

\* a transfer from a pool vault to the user, and one from the user to a vault
is_payout(c) == c.op = "transfer" /\ IsVault(c.from)
is_deposit(c) == c.op = "transfer" /\ IsVault(c.to)

\* C12: a DeFi instruction that returns OutsideSpecifiedLimits has made no
\* transfer, mint or burn: every limit is compared before the first token
\* program call.
C12_LimitsBeforeEffects ==
    [][(lastOp'.kind \in DefiKinds /\ result' = "OutsideSpecifiedLimits")
        => effects' = <<>>]_vars

\* C13: in RemoveUniform, RemoveExactBurn and RemoveExactOutput every transfer
\* from a pool vault to the user comes after the burn of the user's LP tokens.
C13_BurnBeforePayout ==
    [][lastOp'.kind \in RemovalKinds
        => \A n \in 1 .. Len(effects') :
              is_payout(effects'[n])
              => \E m \in 1 .. (n - 1) : effects'[m].op = "burn"]_vars

\* C14: in SwapExactInput and SwapExactOutput every transfer from the user to
\* a vault comes before every transfer from a vault to the user, and a
\* successful swap makes both; in Add every transfer from the user comes
\* before every mint, and a successful Add ends its own calls with the mint
\* to the user's LP account.
C14_InboundBeforeOutbound ==
    [][/\ lastOp'.kind \in {"SwapExactInput", "SwapExactOutput"}
          => /\ \A m, n \in 1 .. Len(effects') :
                  (is_deposit(effects'[m]) /\ is_payout(effects'[n])) => m < n
             /\ result' = "Ok"
                => /\ \E m \in 1 .. Len(effects') : is_deposit(effects'[m])
                   /\ \E n \in 1 .. Len(effects') : is_payout(effects'[n])
       /\ lastOp'.kind = "Add"
          => /\ \A m, n \in 1 .. Len(effects') :
                  (is_deposit(effects'[m]) /\ effects'[n].op = "mint") => m < n
             /\ result' = "Ok"
                => /\ \E m \in 1 .. Len(effects') : is_deposit(effects'[m])
                   /\ \E n \in 1 .. Len(effects') :
                        /\ effects'[n].op = "mint"
                        /\ effects'[n].to = lastOp'.accounts[AccUserLp]]_vars

\* a SwapExactOutput has collected its input and then paid an output
C14_Witness ==
    /\ lastOp.kind = "SwapExactOutput"
    /\ result = "Ok"
    /\ Len(effects) >= 2
    /\ is_deposit(effects[1]) /\ effects[1].amount > 0
    /\ is_payout(effects[2]) /\ effects[2].amount > 0

\* ------------------------------------------------------ governance fee mint
\* the governance mint amount the handler holds for ix after de-equalizing
\* what the solver returned: RemoveUniform calls no solver and holds 0
held_governance_mint(p, ix, r) ==
    IF ix.kind = "RemoveUniform" THEN 0
    ELSE from_equalized(r.governance_mint_amount, p.lp_decimal_equalizer)

\* C15: a successful DeFi instruction mints to the governance fee account if
\* and only if the de-equalized governance mint amount is above zero; the mint
\* is then its last call, of that amount, from the record's LP mint to the
\* account the record names as governance_fee_key, and no earlier call mints
\* to that account. RemoveUniform never mints to it, and an instruction that
\* presents another account as governance fee account is refused before any call.
C15_GovernanceFeeMint ==
    \A ix \in DefiIxs :
      /\ \A f \in {ZeroKey, "fee_acct", "user_lp"} \ {pool.governance_fee_key} :
            LET out == process_defi_instruction(
                           pool, ix, DefiAccounts("authority", GoodVaults, LpMintKey, f),
                           pool_balances, lp_total_supply,
                           InvariantOk(0, to_equalized(1, pool.lp_decimal_equalizer), 0),
                           TRUE)
            IN  out.result # "Ok" /\ out.effects = <<>>
      /\ \A env \in DefiEnvs(pool, ix, GoodDefiAccounts(pool), pool_balances,
                            lp_total_supply) :
            LET out == process_defi_instruction(pool, ix, GoodDefiAccounts(pool),
                                                pool_balances, lp_total_supply,
                                                env.r, env.user_ok)
                g == held_governance_mint(pool, ix, env.r)
                n == Len(out.effects)
                to_fee(c) == c.op = "mint" /\ c.to = pool.governance_fee_key
            IN  out.result = "Ok"
                => /\ g > 0
                      => /\ n >= 2
                         /\ out.effects[n] = MintTo(pool.lp_mint_key,
                                                    pool.governance_fee_key, g)
                         /\ \A m \in 1 .. (n - 1) : ~to_fee(out.effects[m])
                   /\ g = 0 => \A m \in 1 .. n : ~to_fee(out.effects[m])
                   /\ ix.kind = "RemoveUniform" => \A m \in 1 .. n : ~to_fee(out.effects[m])

\* a swap has paid the user and then minted the governance fee
C15_Witness ==
    /\ lastOp.kind = "SwapExactInput"
    /\ result = "Ok"
    /\ Len(effects) >= 3
    /\ is_payout(effects[Len(effects) - 1])
    /\ effects[Len(effects)] = MintTo(pool.lp_mint_key, pool.governance_fee_key,
                                      effects[Len(effects)].amount)
    /\ effects[Len(effects)].amount > 0

\* --------------------------------------------------------------- user limits
\* the amount the arm of ix compares with the user's limit: the de-equalized
\* amount the solver returned
compared_amount(p, ix, r) == from_equalized(r.user_amount, user_equalizer(p, ix))

\* the comparison the claim gives for ix
outside_limits(p, ix, r, balances, supply) ==
    CASE ix.kind = "Add" -> compared_amount(p, ix, r) < ix.minimum_mint_amount
      [] ix.kind \in {"SwapExactInput", "RemoveExactBurn"} ->
            compared_amount(p, ix, r) < ix.minimum_output_amount
      [] ix.kind = "SwapExactOutput" -> compared_amount(p, ix, r) > ix.maximum_input_amount
      [] ix.kind = "RemoveExactOutput" -> compared_amount(p, ix, r) > ix.maximum_burn_amount
      [] ix.kind = "RemoveUniform" ->
            \E i \in Tokens :
                uniform_output_amount(balances[i], user_share(ix.exact_burn_amount, supply))
                < ix.minimum_output_amounts[i]

\* the token program call that moves the compared amount
moves_compared(p, ix, r, accounts, balances, supply, calls) ==
    LET a == compared_amount(p, ix, r)
        has(c) == \E n \in 1 .. Len(calls) : calls[n] = c
    IN  CASE ix.kind = "Add" -> has(MintTo(accounts[AccLpMint], accounts[AccUserLp], a))
          [] ix.kind \in {"SwapExactInput", "RemoveExactBurn"} ->
                has(Transfer(accounts[AccVault(ix.output_token_index)],
                             accounts[AccUserToken(ix.output_token_index)], a))
          [] ix.kind = "SwapExactOutput" ->
                has(Transfer(accounts[AccUserToken(ix.input_token_index)],
                             accounts[AccVault(ix.input_token_index)], a))
          [] ix.kind = "RemoveExactOutput" ->
                has(Burn(accounts[AccUserLp], accounts[AccLpMint], a))
          [] ix.kind = "RemoveUniform" ->
                \A i \in Tokens :
                    has(Transfer(accounts[AccVault(i)], accounts[AccUserToken(i)],
                                 uniform_output_amount(
                                     balances[i],
                                     user_share(ix.exact_burn_amount, supply))))

\* ix passes the checks of its arm, and the solver (where the arm calls it)
\* returned a result
valid_with_result(p, ix, env, balances, supply) ==
    /\ is_initialized(p)
    /\ IF ix.kind = "RemoveUniform"
       THEN 1 <= ix.exact_burn_amount /\ ix.exact_burn_amount <= supply
       ELSE /\ ~p.is_paused
            /\ calls_solver(p, ix, GoodDefiAccounts(p), balances, supply)
            /\ env.r.ok

\* C16: given valid inputs and a solver result, a DeFi instruction returns
\* OutsideSpecifiedLimits if and only if the amount computed for the user is on
\* the wrong side of the limit (below a minimum, above a maximum); an amount
\* equal to the limit passes, and a successful instruction moves on the ledger
\* exactly the amount that was compared.
C16_LimitsExact ==
    \A ix \in DefiIxs :
        \A env \in DefiEnvs(pool, ix, GoodDefiAccounts(pool), pool_balances,
                            lp_total_supply) :
            valid_with_result(pool, ix, env, pool_balances, lp_total_supply)
            => LET out == process_defi_instruction(pool, ix, GoodDefiAccounts(pool),
                                                   pool_balances, lp_total_supply,
                                                   env.r, env.user_ok)
               IN  /\ out.result = "OutsideSpecifiedLimits"
                      <=> outside_limits(pool, ix, env.r, pool_balances, lp_total_supply)
                   /\ out.result = "Ok"
                      => moves_compared(pool, ix, env.r, GoodDefiAccounts(pool),
                                        pool_balances, lp_total_supply, out.effects)

\* an Add has minted one LP token to the user, and in the state it left an Add
\* whose computed mint equals its minimum succeeds
C16_Witness ==
    /\ lastOp.kind = "Add"
    /\ result = "Ok"
    /\ \E n \in 1 .. Len(effects) :
          effects[n] = MintTo(pool.lp_mint_key, lastOp.accounts[AccUserLp], 1)
    /\ \E ix \in AddIxs :
          \E env \in DefiEnvs(pool, ix, GoodDefiAccounts(pool), pool_balances,
                              lp_total_supply) :
            /\ valid_with_result(pool, ix, env, pool_balances, lp_total_supply)
            /\ ix.minimum_mint_amount = 1
            /\ compared_amount(pool, ix, env.r) = 1
            /\ process_defi_instruction(pool, ix, GoodDefiAccounts(pool), pool_balances,
                                        lp_total_supply, env.r, env.user_ok).result = "Ok"

\* ---------------------------------------------------------- input validation
\* what the handler returns for ix with the pool's accounts
defi_outcomes(ix) ==
    {process_defi_instruction(pool, ix, GoodDefiAccounts(pool), pool_balances,
                              lp_total_supply, env.r, env.user_ok) :
        env \in DefiEnvs(pool, ix, GoodDefiAccounts(pool), pool_balances, lp_total_supply)}

\* every outcome of ix is the refusal err, made before any token program call
refused_with(ix, err) ==
    \A out \in defi_outcomes(ix) : out.result = err /\ out.effects = <<>> /\ out.pool = pool

\* C17: on an initialized, unpaused pool presented with its accounts, an Add
\* whose input amounts are all zero fails with InvalidInstructionData, and an
\* Add into a pool without LP supply with some (not every) input amount zero
\* fails with AddRequiresAllTokens; so an Add that succeeds on a pool without
\* LP supply transfers a positive amount of every token to its vault.
C17_AddInputValidation ==
    /\ []((is_initialized(pool) /\ ~pool.is_paused)
          => \A ix \in AddIxs :
                /\ AllZero(ix.input_amounts) => refused_with(ix, "InvalidInstructionData")
                /\ (/\ ~AllZero(ix.input_amounts)
                    /\ lp_total_supply = 0
                    /\ \E i \in Tokens : ix.input_amounts[i] = 0)
                   => refused_with(ix, "AddRequiresAllTokens"))
    /\ [][(lastOp'.kind = "Add" /\ result' = "Ok" /\ lp_total_supply = 0)
           => \A i \in Tokens :
                \E n \in 1 .. Len(effects') :
                    /\ effects'[n].op = "transfer"
                    /\ effects'[n].to = VaultKey(i)
                    /\ effects'[n].amount > 0]_vars

\* an Add into the empty pool was refused for leaving a token out
C17_Witness ==
    /\ is_initialized(pool)
    /\ lp_total_supply = 0
    /\ lastOp.kind = "Add"
    /\ lastOp.accounts = GoodDefiAccounts(pool)
    /\ result = "AddRequiresAllTokens"

\* no outcome of ix is the refusal err
never_refused_with(ix, err) == \A out \in defi_outcomes(ix) : out.result # err

\* C18: on an initialized, unpaused pool presented with its accounts,
\* SwapExactInput fails with InvalidInstructionData unless output_token_index <
\* TOKEN_COUNT, exact_input_amounts[output_token_index] = 0 and some input amount
\* is not zero, and does not fail with it when they hold; SwapExactOutput fails
\* with InvalidInstructionData unless input_token_index < TOKEN_COUNT,
\* exact_output_amounts[input_token_index] = 0 and some output amount is not
\* zero, and does not fail with it when they hold and every output amount is
\* below its vault balance. The index is compared with TOKEN_COUNT before any
\* array is read at it.
C18_SwapIndexValidation ==
    (is_initialized(pool) /\ ~pool.is_paused)
    => /\ \A ix \in SwapExactInputIxs :
            IF \/ ix.output_token_index >= TOKEN_COUNT
               \/ ix.exact_input_amounts[ix.output_token_index] # 0
               \/ AllZero(ix.exact_input_amounts)
            THEN refused_with(ix, "InvalidInstructionData")
            ELSE never_refused_with(ix, "InvalidInstructionData")
       /\ \A ix \in SwapExactOutputIxs :
            IF \/ ix.input_token_index >= TOKEN_COUNT
               \/ ix.exact_output_amounts[ix.input_token_index] # 0
               \/ AllZero(ix.exact_output_amounts)
            THEN refused_with(ix, "InvalidInstructionData")
            ELSE (\A i \in Tokens : ix.exact_output_amounts[i] < pool_balances[i])
                 => never_refused_with(ix, "InvalidInstructionData")

\* a pool holding funds has refused a swap for its arguments
C18_Witness ==
    /\ is_initialized(pool)
    /\ ~pool.is_paused
    /\ \A i \in Tokens : pool_balances[i] > 0
    /\ lastOp.kind = "SwapExactInput"
    /\ lastOp.accounts = GoodDefiAccounts(pool)
    /\ result = "InvalidInstructionData"

\* C19: on an initialized, unpaused pool presented with its accounts,
\* SwapExactOutput and RemoveExactOutput fail with InvalidInstructionData
\* whenever some exact_output_amounts[i] >= the balance of vault i, also where
\* the amount asked of that vault is zero; so after a successful SwapExactOutput
\* or RemoveExactOutput every vault holds at least 1, and every transfer from a
\* vault to the user is below the balance the vault held before the instruction.
C19_ExactOutputBound ==
    /\ []((is_initialized(pool) /\ ~pool.is_paused)
          => \A ix \in SwapExactOutputIxs \cup RemoveExactOutputIxs :
                (\E i \in Tokens : ix.exact_output_amounts[i] >= pool_balances[i])
                => refused_with(ix, "InvalidInstructionData"))
    /\ [][(lastOp'.kind \in {"SwapExactOutput", "RemoveExactOutput"} /\ result' = "Ok")
           => /\ \A i \in Tokens : pool_balances'[i] >= 1
              /\ \A n \in 1 .. Len(effects') :
                    is_payout(effects'[n])
                    => effects'[n].amount < pool_balances[VaultIndex(effects'[n].from)]]_vars

\* a RemoveExactOutput has paid 1 out of a vault that keeps 1
C19_Witness ==
    /\ lastOp.kind = "RemoveExactOutput"
    /\ result = "Ok"
    /\ \E n \in 1 .. Len(effects) :
          /\ is_payout(effects[n])
          /\ effects[n].amount = 1
          /\ pool_balances[VaultIndex(effects[n].from)] = 1

\* ---------------------------------------------------------- uniform payout
\* C20: a successful RemoveUniform that burns burn LP tokens transfers, for
\* every token i, exactly floor(B_i * burn / supply) from vault i to the user,
\* B_i and supply being the vault balance and the LP supply before it.
C20_UniformPayoutExact ==
    [][(lastOp'.kind = "RemoveUniform" /\ result' = "Ok")
        => LET burn == effects'[Len(effects')].amount
           IN  /\ effects'[Len(effects')].op = "burn"
               /\ \A i \in Tokens :
                    effects'[i + 1] = Transfer(VaultKey(i), UserTokenKey(i),
                                               (pool_balances[i] * burn)
                                               \div lp_total_supply)]_vars

\* ----------------------------------------------------------- uniform depth
\* C21: a successful RemoveUniform that burns burn LP tokens sets
\* previous_depth to D_before * (supply - burn) / supply, D_before being the
\* previous_depth and supply the LP supply before it; where the quotient is not
\* whole, either neighbouring integer is taken as the value.
C21_UniformDepthExact ==
    [][(lastOp'.kind = "RemoveUniform" /\ result' = "Ok")
        => LET burn == effects'[Len(effects')].amount
               scaled == pool.previous_depth * (lp_total_supply - burn)
           IN  pool'.previous_depth \in {scaled \div lp_total_supply,
                                         (scaled + lp_total_supply - 1)
                                         \div lp_total_supply}]_vars

\* ------------------------------------------------------------ vault drain
\* the solver's answer leaves the vault it draws from at least one equalized
\* unit: the balance it solved for is above zero
leaves_residual(p, ix, r, balances) ==
    (ix.kind \in {"SwapExactInput", "RemoveExactBurn"} /\ ix.output_token_index < TOKEN_COUNT)
    => r.user_amount < to_equalized(balances[ix.output_token_index],
                                    p.token_decimal_equalizers[ix.output_token_index])

\* C22: on an initialized pool whose vaults and LP supply started at zero, after
\* every successful DeFi instruction an LP supply above zero comes with a
\* balance above zero in every vault. Stated for one instruction from a state
\* where it holds, with every answer of the solver that leaves the vault it
\* draws from more than nothing.
C22_NoDrainToZero ==
    (is_initialized(pool) /\ (lp_total_supply > 0 => \A i \in Tokens : pool_balances[i] > 0))
    => \A ix \in DefiIxs :
        \A env \in DefiEnvs(pool, ix, GoodDefiAccounts(pool), pool_balances,
                            lp_total_supply) :
            LET out == process_defi_instruction(pool, ix, GoodDefiAccounts(pool),
                                                pool_balances, lp_total_supply,
                                                env.r, env.user_ok)
            IN  (out.result = "Ok" /\ leaves_residual(pool, ix, env.r, pool_balances)
                 /\ out.supply > 0)
                => \A i \in Tokens : out.balances[i] > 0

\* ------------------------------------------------------- rounding direction
\* the instructions whose solver amount is paid to the user, and those whose
\* solver amount is charged to the user
PayingKinds == {"Add", "SwapExactInput", "RemoveExactBurn"}
ChargingKinds == {"SwapExactOutput", "RemoveExactOutput"}

\* C23: the raw amount a successful DeFi instruction derives from the solver's
\* equalized amount is rounded against the user: what is paid to the user
\* (output of SwapExactInput and RemoveExactBurn, LP minted by Add), scaled back
\* by 10^equalizer, is not above the solver's amount, and what is charged to
\* the user (input of SwapExactOutput, LP burned by RemoveExactOutput), scaled
\* back, is not below it.
C23_RoundingAgainstUser ==
    \A ix \in GatedIxs :
        \A env \in DefiEnvs(pool, ix, GoodDefiAccounts(pool), pool_balances,
                            lp_total_supply) :
            LET out == process_defi_instruction(pool, ix, GoodDefiAccounts(pool),
                                                pool_balances, lp_total_supply,
                                                env.r, env.user_ok)
                raw == compared_amount(pool, ix, env.r)
                e == user_equalizer(pool, ix)
            IN  out.result = "Ok"
                => /\ ix.kind \in PayingKinds => to_equalized(raw, e) <= env.r.user_amount
                   /\ ix.kind \in ChargingKinds => env.r.user_amount <= to_equalized(raw, e)

\* ------------------------------------------------- equalization round trip
\* the equalizers a record may hold
Equalizers == 0 .. MAX_DECIMAL_DIFFERENCE

\* the raw amounts an instruction may name, and those the ledger holds now
RawAmounts ==
    (0 .. (MaxAmount + 1)) \cup {lp_total_supply} \cup {pool_balances[i] : i \in Tokens}

\* equalized amounts around every raw amount: the amount itself, one above,
\* just below and at the half unit, and one below the next raw unit
EqualizedAround(e) ==
    {to_equalized(a, e) + s :
        a \in RawAmounts,
        s \in {0, 1 % ten_to_the(e), (5 * ten_to_the(e)) \div 10,
               Max2(0, (5 * ten_to_the(e)) \div 10 - 1), ten_to_the(e) - 1}}

\* C24: for every equalizer e in 0..8, to_equalized(v, e) = v * 10^e;
\* from_equalized(x, e) = floor((x + 5 * 10^(e-1)) / 10^e) for e > 0 and x for
\* e = 0; so from_equalized(to_equalized(v, e), e) = v for every raw amount v,
\* and from_equalized(x, e) * 10^e differs from x by at most half of 10^e.
C24_EqualizationRoundTrip ==
    \A e \in Equalizers :
        /\ \A v \in RawAmounts :
              /\ to_equalized(v, e) = v * ten_to_the(e)
              /\ from_equalized(to_equalized(v, e), e) = v
        /\ \A x \in EqualizedAround(e) :
              LET raw == from_equalized(x, e)
                  diff == IF raw * ten_to_the(e) >= x THEN raw * ten_to_the(e) - x
                          ELSE x - raw * ten_to_the(e)
              IN  /\ e > 0 => raw = (x + 5 * ten_to_the(e - 1)) \div ten_to_the(e)
                  /\ e = 0 => raw = x
                  /\ 2 * diff <= ten_to_the(e)

\* a first Add into a pool whose LP mint has an equalizer above zero minted the
\* de-equalized depth, and equalizing the minted amount gives the depth back
C24_Witness ==
    /\ lastOp.kind = "Add"
    /\ result = "Ok"
    /\ pool.lp_decimal_equalizer > 0
    /\ \E n \in 1 .. Len(effects) :
          /\ effects[n].op = "mint"
          /\ effects[n].amount > 0
          /\ to_equalized(effects[n].amount, pool.lp_decimal_equalizer) = pool.previous_depth

\* ------------------------------------------------------------ one-time Init
\* every Init presented to the record p: it is refused and p is kept, and where
\* its fees sum below one and the pool account is rent exempt (the two checks
\* made before the record is read) the refusal is AccountAlreadyInitialized
init_refused(p, balances, supply) ==
    \A in \in InitInputs \cup InitInputsFor(p) :
        LET out == process_init(p, in.ix, in.accounts, in.rent_exempt, balances, supply)
        IN  /\ out.result # "Ok"
            /\ out.pool = p
            /\ (/\ init_fee_input(in.ix) = "Ok"
                /\ in.rent_exempt
                /\ Len(in.accounts) >= 1
                /\ in.accounts[1] = PoolKey)
               => out.result = "AccountAlreadyInitialized"

\* every DeFi and governance instruction that names the pool account whose
\* record p is uninitialized fails with UninitializedAccount
uninitialized_refuses(p, balances, supply, t) ==
    /\ \A ix \in DefiIxs :
          \A accounts \in {GoodDefiAccounts(p), GoodDefiAccounts(init_pool_state(
                               InitIx(GoodNonce, 1, 0, 0), GoodInitAccounts))} :
              \A r \in Invariant_results(p, ix, balances, supply), user_ok \in BOOLEAN :
                  LET out == process_defi_instruction(p, ix, accounts, balances, supply,
                                                      r, user_ok)
                  IN  out.result = "UninitializedAccount" /\ out.pool = p
                      /\ out.effects = <<>>
    /\ \A ix \in GovIxs(t) :
          \A env \in GovEnvs \cup SignedGovEnvs(p, ix) :
              addresses_pool(env)
              => LET out == process_governance_instruction(p, ix, env.accounts,
                                                           env.signers, t)
                 IN  out.result = "UninitializedAccount" /\ out.pool = p

\* C25: an Init on a pool account that holds an initialized record fails, with
\* AccountAlreadyInitialized once the fee sum and rent checks that precede the
\* reading of the record have passed, and leaves the record as it was; the
\* record becomes initialized only by a successful Init and never becomes
\* uninitialized again, so it is initialized at most once; every DeFi and
\* governance instruction on the pool account fails with UninitializedAccount
\* while the record is uninitialized.
C25_InitOnce ==
    /\ [](IF is_initialized(pool)
          THEN init_refused(pool, pool_balances, lp_total_supply)
          ELSE uninitialized_refuses(pool, pool_balances, lp_total_supply, now))
    /\ [][/\ is_initialized(pool) => is_initialized(pool')
          /\ (~is_initialized(pool) /\ is_initialized(pool'))
             => (lastOp'.kind = "Init" /\ result' = "Ok")
          /\ (lastOp'.kind = "Init" /\ is_initialized(pool))
             => (result' # "Ok" /\ pool' = pool)
          /\ (~is_initialized(pool) /\ lastOp'.kind \in DefiKinds \cup GovernanceKinds
              /\ addresses_pool(lastOp'))
             => (result' = "UninitializedAccount" /\ pool' = pool /\ effects' = <<>>)]_vars

\* a pool that holds funds has refused a second Init
C25_Witness ==
    /\ is_initialized(pool)
    /\ lp_total_supply > 0
    /\ lastOp.kind = "Init"
    /\ result = "AccountAlreadyInitialized"

\* -------------------------------------------------- Init account validation
\* the errors of process_init that the conditions on the LP mint and on the
\* vaults do not produce
OtherInitErrors ==
    {"InvalidFeeInput", "NotEnoughAccountKeys", "AccountNotRentExempt",
     "AccountAlreadyInitialized", "IllegalOwner", "IncorrectProgramId",
     "InvalidAccountData", "DuplicateAccount", "MaxDecimalDifferenceExceeded",
     "AmpValueOutOfRange"}

\* the first condition vault i breaks, in the order given
vault_fault(accounts, i, balances) ==
    LET t == TokenTable(accounts[3 + TOKEN_COUNT + i]) IN
    IF t.mint # accounts[3 + i] THEN "MintMismatch"
    ELSE IF ~t.owner_ok THEN "OwnerMismatch"
    ELSE IF token_amount(accounts[3 + TOKEN_COUNT + i], balances) # 0
         THEN "TokenAccountHasBalance"
    ELSE IF t.delegate THEN "TokenAccountHasDelegate"
    ELSE IF t.close_authority THEN "TokenAccountHasCloseAuthority"
    ELSE "Ok"

\* the first condition the LP mint and the vaults of a full account list break
first_fault(accounts, balances, supply) ==
    IF mint_supply(accounts[2], supply) # 0 THEN "MintHasBalance"
    ELSE IF ~MintTable(accounts[2]).authority_ok THEN "InvalidMintAuthority"
    ELSE IF MintTable(accounts[2]).freeze THEN "MintHasFreezeAuthority"
    ELSE IF \E i \in Tokens : vault_fault(accounts, i, balances) # "Ok"
         THEN vault_fault(accounts,
                          CHOOSE i \in Tokens :
                              /\ vault_fault(accounts, i, balances) # "Ok"
                              /\ \A j \in 0 .. (i - 1) :
                                    vault_fault(accounts, j, balances) = "Ok",
                          balances)
    ELSE "Ok"

\* C26: an Init succeeds only if the LP mint has zero supply, the pool
\* authority as mint authority and no freeze authority, and every vault has the
\* mint of its token, the pool authority as owner, zero balance, no delegate and
\* no close authority; an Init with no other fault fails with the error of the
\* first of these conditions it breaks (MintHasBalance, InvalidMintAuthority,
\* MintHasFreezeAuthority, MintMismatch, OwnerMismatch, TokenAccountHasBalance,
\* TokenAccountHasDelegate, TokenAccountHasCloseAuthority). Checked for the pool
\* record and for an uninitialized record against the ledger as it stands; so
\* a pool is initialized with empty vaults and zero LP supply.
C26_InitAccountValidation ==
    /\ [](\A p \in {pool, UninitializedPool}, in \in InitInputs :
            Len(in.accounts) >= 2 + 2 * TOKEN_COUNT
            => LET out == process_init(p, in.ix, in.accounts, in.rent_exempt,
                                       pool_balances, lp_total_supply)
                   fault == first_fault(in.accounts, pool_balances, lp_total_supply)
               IN  /\ out.result = "Ok"
                      => /\ fault = "Ok"
                         /\ mint_supply(out.pool.lp_mint_key, lp_total_supply) = 0
                         /\ \A i \in Tokens :
                               token_amount(out.pool.token_keys[i], pool_balances) = 0
                   /\ (fault # "Ok" /\ out.result \notin OtherInitErrors)
                      => out.result = fault)
    /\ [][(lastOp'.kind = "Init" /\ result' = "Ok")
           => /\ lp_total_supply' = 0
              /\ \A i \in Tokens : pool_balances'[i] = 0]_vars

\* an Init has been refused for a vault that holds tokens, and each of the
\* eight errors is what some Init presented to the record returns
C26_Witness ==
    /\ lastOp.kind = "Init"
    /\ result = "TokenAccountHasBalance"
    /\ ~is_initialized(pool)
    /\ \A err \in {"MintHasBalance", "InvalidMintAuthority", "MintHasFreezeAuthority",
                    "MintMismatch", "OwnerMismatch", "TokenAccountHasBalance",
                    "TokenAccountHasDelegate", "TokenAccountHasCloseAuthority"} :
          \E in \in InitInputs :
              /\ first_fault(in.accounts, pool_balances, lp_total_supply) = err
              /\ process_init(pool, in.ix, in.accounts, in.rent_exempt,
                              pool_balances, lp_total_supply).result = err

\* -------------------------------------------------------- decimal equalizers
\* Init inputs whose first token mint has 8 and 9 decimals more than the LP
\* mint, with a vault of that mint
DecimalInitInputs ==
    {[ix |-> InitIx(GoodNonce, 1, 0, 0),
      accounts |-> InitAccounts(LpMintKey, [GoodMints EXCEPT ![1] = mv[1]],
                                [GoodVaults EXCEPT ![1] = mv[2]], "govA", "fee_acct"),
      rent_exempt |-> TRUE] :
        mv \in {<<"mint_dec14", "vault_dec14">>, <<"mint_dec15", "vault_dec15">>}}

\* the decimals of the LP mint and of the token mints of an account list
mint_decimals(accounts) ==
    {MintTable(accounts[2]).decimals} \cup {MintTable(accounts[3 + i]).decimals : i \in Tokens}
max_decimals(accounts) ==
    CHOOSE d \in mint_decimals(accounts) : \A e \in mint_decimals(accounts) : e <= d
min_decimals(accounts) ==
    CHOOSE d \in mint_decimals(accounts) : \A e \in mint_decimals(accounts) : d <= e

\* the equalizers of a record, the LP mint's first
equalizers(p) == <<p.lp_decimal_equalizer, p.token_decimal_equalizers>>

\* every equalizer of p is in 0..8 and one of them is 0
equalizers_in_range(p) ==
    /\ p.lp_decimal_equalizer \in Equalizers
    /\ \A i \in Tokens : p.token_decimal_equalizers[i] \in Equalizers
    /\ p.lp_decimal_equalizer = 0 \/ \E i \in Tokens : p.token_decimal_equalizers[i] = 0

\* the errors of the checks process_init makes before it compares the decimals
ErrorsBeforeDecimals ==
    {"InvalidFeeInput", "NotEnoughAccountKeys", "AccountNotRentExempt",
     "AccountAlreadyInitialized", "IllegalOwner", "IncorrectProgramId",
     "InvalidAccountData", "DuplicateAccount", "MintHasBalance",
     "InvalidMintAuthority", "MintHasFreezeAuthority"}

\* C27: an Init whose mints' decimals (LP mint and token mints) span more than
\* 8 fails, with MaxDecimalDifferenceExceeded unless an earlier check fails; a
\* successful Init stores lp_decimal_equalizer = max_decimals - lp_decimals and
\* token_decimal_equalizers[i] = max_decimals - decimals_i; in every record of
\* an initialized pool each equalizer is in 0..8 and at least one is 0; no
\* Init on an initialized pool, DeFi instruction or governance instruction
\* changes the equalizers.
C27_DecimalEqualizers ==
    /\ [](/\ is_initialized(pool) => equalizers_in_range(pool)
          /\ \A in \in InitInputs \cup DecimalInitInputs :
                Len(in.accounts) >= 2 + TOKEN_COUNT
                => LET out == process_init(UninitializedPool, in.ix, in.accounts,
                                           in.rent_exempt, pool_balances, lp_total_supply)
                       hi == max_decimals(in.accounts)
                   IN  /\ hi - min_decimals(in.accounts) > MAX_DECIMAL_DIFFERENCE
                          => out.result \in ErrorsBeforeDecimals
                                            \cup {"MaxDecimalDifferenceExceeded"}
                       /\ out.result = "Ok"
                          => /\ out.pool.lp_decimal_equalizer
                                = hi - MintTable(in.accounts[2]).decimals
                             /\ \A i \in Tokens :
                                   out.pool.token_decimal_equalizers[i]
                                   = hi - MintTable(in.accounts[3 + i]).decimals
                             /\ equalizers_in_range(out.pool)
          /\ is_initialized(pool)
             => /\ \A ix \in DefiIxs :
                      \A out \in defi_outcomes(ix) : equalizers(out.pool) = equalizers(pool)
                /\ \A ix \in GovIxs(now) :
                      \A env \in SignedGovEnvs(pool, ix) :
                          equalizers(process_governance_instruction(
                                         pool, ix, env.accounts, env.signers, now).pool)
                          = equalizers(pool))
    /\ [][is_initialized(pool) => equalizers(pool') = equalizers(pool)]_vars

\* an Init over mints one decimal apart has succeeded with equalizers 1, 1 and
\* 0; against the same ledger an Init over mints 8 decimals apart succeeds with
\* equalizers 8, 0 and 7, and one over mints 9 decimals apart is refused for
\* the difference
C27_Witness ==
    /\ lastOp.kind = "Init"
    /\ result = "Ok"
    /\ equalizers(pool) = <<1, [i \in Tokens |-> IF i = 1 THEN 0 ELSE 1]>>
    /\ \E in \in DecimalInitInputs :
          LET out == process_init(UninitializedPool, in.ix, in.accounts, in.rent_exempt,
                                  pool_balances, lp_total_supply)
          IN  /\ out.result = "Ok"
              /\ out.pool.lp_decimal_equalizer = MAX_DECIMAL_DIFFERENCE
              /\ out.pool.token_decimal_equalizers[0] = 0
    /\ \E in \in DecimalInitInputs :
          process_init(UninitializedPool, in.ix, in.accounts, in.rent_exempt,
                       pool_balances, lp_total_supply).result
          = "MaxDecimalDifferenceExceeded"

\* ------------------------------------------------------- Init key uniqueness
\* the number of accounts process_init reads
InitAccountCount == 4 + 2 * TOKEN_COUNT

\* the list that succeeds with, at one position, the key of an earlier position
DuplicateInitAccountLists ==
    {[GoodInitAccounts EXCEPT ![ij[2]] = GoodInitAccounts[ij[1]]] :
        ij \in {x \in (1 .. InitAccountCount) \X (1 .. InitAccountCount) : x[1] < x[2]}}

\* the list that names the zero key twice, as governance and as governance fee
\* account
ZeroKeysInitAccounts == InitAccounts(LpMintKey, GoodMints, GoodVaults, ZeroKey, ZeroKey)

\* two of the accounts process_init reads have the same key, not the zero key
has_duplicate(accounts) ==
    \E i, j \in 1 .. InitAccountCount :
        /\ i < j
        /\ j <= Len(accounts)
        /\ accounts[i] = accounts[j]
        /\ accounts[i] # ZeroKey

\* the keys a record stores, in the order of the account list
stored_keys(p) ==
    <<p.lp_mint_key>> \o KeysOf(p.token_mint_keys) \o KeysOf(p.token_keys)
    \o <<p.governance_key, p.governance_fee_key>>

\* the keys of a sequence that are not the zero key are pairwise distinct
distinct_keys(ks) ==
    \A i, j \in 1 .. Len(ks) : (i < j /\ ks[i] # ZeroKey) => ks[i] # ks[j]

\* C28: an Init that is given the same non-zero key for two of its accounts
\* (pool state, LP mint, token mints, vaults, governance, governance fee) fails:
\* with DuplicateAccount when the later of the two repeats the key of an
\* earlier account of a list that is otherwise accepted, and never succeeds
\* whatever else is checked first; the zero key may be given twice; so a
\* successful Init stores pairwise distinct non-zero keys.
C28_InitKeyUniqueness ==
    /\ [](/\ \A a \in {in.accounts : in \in InitInputs} \cup DuplicateInitAccountLists
                      \cup {ZeroKeysInitAccounts} :
                LET out == process_init(UninitializedPool, InitIx(GoodNonce, 1, 0, 0), a,
                                        TRUE, pool_balances, lp_total_supply)
                IN  /\ has_duplicate(a) => out.result # "Ok"
                    /\ out.result = "Ok" => distinct_keys(<<PoolKey>> \o stored_keys(out.pool))
          /\ \A a \in DuplicateInitAccountLists :
                \A p \in {pool, UninitializedPool} :
                    (~is_initialized(p) /\ lp_total_supply = 0)
                    => process_init(p, InitIx(GoodNonce, 1, 0, 0), a, TRUE,
                                    pool_balances, lp_total_supply).result
                       = "DuplicateAccount"
          /\ ~is_initialized(pool)
             => process_init(pool, InitIx(GoodNonce, 1, 0, 0), ZeroKeysInitAccounts, TRUE,
                             pool_balances, lp_total_supply).result = "Ok")
    /\ [][(lastOp'.kind = "Init" /\ result' = "Ok")
           => /\ distinct_keys(<<PoolKey>> \o stored_keys(pool'))
              /\ ~has_duplicate(lastOp'.accounts)]_vars

\* an Init that names one account as governance and as governance fee account
\* has been refused
C28_Witness ==
    /\ lastOp.kind = "Init"
    /\ result = "DuplicateAccount"
    /\ lastOp.accounts[InitAccountCount - 1] = lastOp.accounts[InitAccountCount]
    /\ lastOp.accounts[InitAccountCount] # ZeroKey

\* ----------------------------------------------- governance fee account change
\* C29: a ChangeGovernanceFeeAccount(k) signed by the governance key of an
\* initialized pool, with k not the zero key, succeeds exactly when a third
\* account is supplied, its key is k and it is a token account of the record's
\* LP mint; it fails with InvalidGovernanceFeeAccount when the third account
\* has another key and with MintMismatch when it is a token account of another
\* mint. With k the zero key it succeeds exactly when governance_fee is 0,
\* whatever prepared_governance_fee is and whatever third account is supplied,
\* and fails with InvalidGovernanceFeeAccount otherwise. On success
\* governance_fee_key becomes k and nothing else changes; on failure nothing
\* changes.
C29_ChangeGovernanceFeeAccount ==
    is_initialized(pool)
    => \A ix \in ChangeGovernanceFeeAccountIxs :
        \A env \in SignedGovEnvs(pool, ix) :
            pool.governance_key \in env.signers
            => LET k == ix.governance_fee_key
                   third == SubSeq(env.accounts, 3, Len(env.accounts))
                   out == process_governance_instruction(pool, ix, env.accounts,
                                                         env.signers, now)
               IN  /\ k # ZeroKey
                      => /\ out.result = "Ok"
                            <=> /\ third # <<>>
                                /\ third[1] = k
                                /\ TokenTable(k).is_token
                                /\ TokenTable(k).mint = pool.lp_mint_key
                         /\ (third # <<>> /\ third[1] # k)
                            => out.result = "InvalidGovernanceFeeAccount"
                         /\ (third # <<>> /\ third[1] = k /\ TokenTable(k).is_token
                             /\ TokenTable(k).mint # pool.lp_mint_key)
                            => out.result = "MintMismatch"
                   /\ k = ZeroKey
                      => /\ out.result = "Ok" <=> pool.governance_fee = 0
                         /\ pool.governance_fee # 0
                            => out.result = "InvalidGovernanceFeeAccount"
                   /\ out.pool = IF out.result = "Ok"
                                 THEN [pool EXCEPT !.governance_fee_key = k]
                                 ELSE pool

\* the governance fee account has been cleared while a prepared governance fee
\* waits to be enacted
C29_Witness ==
    /\ lastOp.kind = "ChangeGovernanceFeeAccount"
    /\ result = "Ok"
    /\ pool.governance_fee_key = ZeroKey
    /\ pool.governance_fee = 0
    /\ pool.prepared_governance_fee > 0

\* ------------------------------------------------------- swaps and the record
\* C30: a successful SwapExactInput or SwapExactOutput on a pool that holds
\* funds leaves the pool record as it was, so the pool account may be passed to
\* it read-only.
C30_SwapKeepsRecord ==
    [][(/\ lastOp'.kind \in {"SwapExactInput", "SwapExactOutput"}
        /\ result' = "Ok"
        /\ lp_total_supply > 0
        /\ \A i \in Tokens : pool_balances[i] > 0)
        => pool' = pool]_vars

\* --------------------------------------------------------- instruction data
\* borsh: integers are little-endian and of fixed width
RECURSIVE to_le_bytes(_, _)
to_le_bytes(v, n) == IF n = 0 THEN <<>> ELSE <<v % 256>> \o to_le_bytes(v \div 256, n - 1)
RECURSIVE from_le_bytes(_)
from_le_bytes(s) == IF s = <<>> THEN 0 ELSE Head(s) + 256 * from_le_bytes(Tail(s))

\* the 32 bytes of the keys an instruction may name; Pubkey::default() is zeros
WireKeys == <<ZeroKey, "govA", "govB", "fee_acct", "user_tok0">>
Pubkey_bytes(k) ==
    to_le_bytes((CHOOSE j \in 1 .. Len(WireKeys) : WireKeys[j] = k) - 1, 32)
Pubkey_from(b) ==
    IF \E j \in 1 .. Len(WireKeys) : to_le_bytes(j - 1, 32) = b
    THEN WireKeys[CHOOSE j \in 1 .. Len(WireKeys) : to_le_bytes(j - 1, 32) = b]
    ELSE "foreign_key"

\* DecT on the wire: (mantissa: u64, point: u8). An amp value is a whole
\* number; a fee is the point of the grid of 1/FeeDen nearest to the decimal.
DecT_bytes(mantissa, point) == to_le_bytes(mantissa, 8) \o <<point>>
amp_bytes(v) == DecT_bytes(v, 0)
fee_bytes(f) == DecT_bytes((f * ten_to_the(DecimalPoint)) \div FeeDen, DecimalPoint)
DecT_mantissa(b) == from_le_bytes(SubSeq(b, 1, 8))
DecT_point(b) == b[9]
amp_from(b) == DecT_mantissa(b) \div ten_to_the(DecT_point(b))
fee_from(b) ==
    (2 * DecT_mantissa(b) * FeeDen + ten_to_the(DecT_point(b)))
    \div (2 * ten_to_the(DecT_point(b)))

\* the fields of each variant, in declaration order
FieldWidth(t) ==
    CASE t \in {"u8", "bool"} -> 1
      [] t \in {"u64", "i64"} -> 8
      [] t = "DecT" -> 9
      [] t = "Pubkey" -> 32
AmountArray == [j \in 1 .. TOKEN_COUNT |-> "u64"]
InitFields == <<"u8", "DecT", "DecT", "DecT">>
DeFiFields(tag) ==
    CASE tag = 0 -> AmountArray \o <<"u64">>
      [] tag = 1 -> AmountArray \o <<"u8", "u64">>
      [] tag = 2 -> <<"u64", "u8">> \o AmountArray
      [] tag = 3 -> <<"u64">> \o AmountArray
      [] tag = 4 -> <<"u64", "u8", "u64">>
      [] tag = 5 -> <<"u64">> \o AmountArray
GovernanceFields(tag) ==
    CASE tag = 0 -> <<"DecT", "DecT">>
      [] tag = 1 -> <<>>
      [] tag = 2 -> <<"Pubkey">>
      [] tag = 3 -> <<>>
      [] tag = 4 -> <<"Pubkey">>
      [] tag = 5 -> <<"i64", "DecT">>
      [] tag = 6 -> <<"bool">>
DeFiTags == 0 .. 5
GovernanceTags == 0 .. 6

\* BorshDeserialize of the fields: each takes its bytes from the front of the
\* slice and fails when the slice ends early or a bool is neither 0 nor 1
RECURSIVE deserialize_fields(_, _)
deserialize_fields(fields, data) ==
    IF fields = <<>> THEN [ok |-> TRUE, values |-> <<>>, rest |-> data]
    ELSE LET w == FieldWidth(Head(fields)) IN
         IF Len(data) < w THEN [ok |-> FALSE, values |-> <<>>, rest |-> <<>>]
         ELSE IF Head(fields) = "bool" /\ data[1] \notin {0, 1}
         THEN [ok |-> FALSE, values |-> <<>>, rest |-> <<>>]
         ELSE LET more == deserialize_fields(Tail(fields),
                                             SubSeq(data, w + 1, Len(data))) IN
              [ok |-> more.ok,
               values |-> <<SubSeq(data, 1, w)>> \o more.values,
               rest |-> more.rest]

amounts_from(v, first) == [i \in Tokens |-> from_le_bytes(v[first + i])]

Init_from(v) ==
    InitIx(from_le_bytes(v[1]), amp_from(v[2]), fee_from(v[3]), fee_from(v[4]))
DeFiInstruction_from(tag, v) ==
    CASE tag = 0 -> [kind |-> "Add", input_amounts |-> amounts_from(v, 1),
                     minimum_mint_amount |-> from_le_bytes(v[TOKEN_COUNT + 1])]
      [] tag = 1 -> [kind |-> "SwapExactInput", exact_input_amounts |-> amounts_from(v, 1),
                     output_token_index |-> from_le_bytes(v[TOKEN_COUNT + 1]),
                     minimum_output_amount |-> from_le_bytes(v[TOKEN_COUNT + 2])]
      [] tag = 2 -> [kind |-> "SwapExactOutput", maximum_input_amount |-> from_le_bytes(v[1]),
                     input_token_index |-> from_le_bytes(v[2]),
                     exact_output_amounts |-> amounts_from(v, 3)]
      [] tag = 3 -> [kind |-> "RemoveUniform", exact_burn_amount |-> from_le_bytes(v[1]),
                     minimum_output_amounts |-> amounts_from(v, 2)]
      [] tag = 4 -> [kind |-> "RemoveExactBurn", exact_burn_amount |-> from_le_bytes(v[1]),
                     output_token_index |-> from_le_bytes(v[2]),
                     minimum_output_amount |-> from_le_bytes(v[3])]
      [] tag = 5 -> [kind |-> "RemoveExactOutput", maximum_burn_amount |-> from_le_bytes(v[1]),
                     exact_output_amounts |-> amounts_from(v, 2)]
GovernanceInstruction_from(tag, v) ==
    CASE tag = 0 -> [kind |-> "PrepareFeeChange", lp_fee |-> fee_from(v[1]),
                     governance_fee |-> fee_from(v[2])]
      [] tag = 1 -> [kind |-> "EnactFeeChange"]
      [] tag = 2 -> [kind |-> "PrepareGovernanceTransition",
                     upcoming_governance_key |-> Pubkey_from(v[1])]
      [] tag = 3 -> [kind |-> "EnactGovernanceTransition"]
      [] tag = 4 -> [kind |-> "ChangeGovernanceFeeAccount",
                     governance_fee_key |-> Pubkey_from(v[1])]
      [] tag = 5 -> [kind |-> "AdjustAmpFactor", target_value |-> amp_from(v[2]),
                     target_ts |-> from_le_bytes(v[1])]
      [] tag = 6 -> [kind |-> "SetPaused", paused |-> (from_le_bytes(v[1]) = 1)]

NotDecoded == [ok |-> FALSE, ix |-> [kind |-> "Undecoded"]]

\* PoolInstruction::try_from_slice: the variant tag, the nested tag, the
\* fields, and nothing after them
try_from_slice(data) ==
    IF Len(data) < 1 THEN NotDecoded
    ELSE IF data[1] = 0
    THEN LET f == deserialize_fields(InitFields, Tail(data)) IN
         IF f.ok /\ f.rest = <<>> THEN [ok |-> TRUE, ix |-> Init_from(f.values)]
         ELSE NotDecoded
    ELSE IF data[1] \notin {1, 2} \/ Len(data) < 2 THEN NotDecoded
    ELSE IF data[1] = 1
    THEN IF data[2] \notin DeFiTags THEN NotDecoded
         ELSE LET f == deserialize_fields(DeFiFields(data[2]), Tail(Tail(data))) IN
              IF f.ok /\ f.rest = <<>>
              THEN [ok |-> TRUE, ix |-> DeFiInstruction_from(data[2], f.values)]
              ELSE NotDecoded
    ELSE IF data[2] \notin GovernanceTags THEN NotDecoded
         ELSE LET f == deserialize_fields(GovernanceFields(data[2]), Tail(Tail(data))) IN
              IF f.ok /\ f.rest = <<>>
              THEN [ok |-> TRUE, ix |-> GovernanceInstruction_from(data[2], f.values)]
              ELSE NotDecoded

\* BorshSerialize (try_to_vec) of the instructions the builders send
RECURSIVE amounts_bytes(_, _)
amounts_bytes(a, i) ==
    IF i = TOKEN_COUNT THEN <<>> ELSE to_le_bytes(a[i], 8) \o amounts_bytes(a, i + 1)
try_to_vec(ix) ==
    CASE ix.kind = "Init" ->
            <<0, ix.nonce>> \o amp_bytes(ix.amp_factor) \o fee_bytes(ix.lp_fee)
            \o fee_bytes(ix.governance_fee)
      [] ix.kind = "Add" ->
            <<1, 0>> \o amounts_bytes(ix.input_amounts, 0)
            \o to_le_bytes(ix.minimum_mint_amount, 8)
      [] ix.kind = "SwapExactInput" ->
            <<1, 1>> \o amounts_bytes(ix.exact_input_amounts, 0)
            \o <<ix.output_token_index>> \o to_le_bytes(ix.minimum_output_amount, 8)
      [] ix.kind = "SwapExactOutput" ->
            <<1, 2>> \o to_le_bytes(ix.maximum_input_amount, 8)
            \o <<ix.input_token_index>> \o amounts_bytes(ix.exact_output_amounts, 0)
      [] ix.kind = "RemoveUniform" ->
            <<1, 3>> \o to_le_bytes(ix.exact_burn_amount, 8)
            \o amounts_bytes(ix.minimum_output_amounts, 0)
      [] ix.kind = "RemoveExactBurn" ->
            <<1, 4>> \o to_le_bytes(ix.exact_burn_amount, 8)
            \o <<ix.output_token_index>> \o to_le_bytes(ix.minimum_output_amount, 8)
      [] ix.kind = "RemoveExactOutput" ->
            <<1, 5>> \o to_le_bytes(ix.maximum_burn_amount, 8)
            \o amounts_bytes(ix.exact_output_amounts, 0)
      [] ix.kind = "PrepareFeeChange" ->
            <<2, 0>> \o fee_bytes(ix.lp_fee) \o fee_bytes(ix.governance_fee)
      [] ix.kind = "EnactFeeChange" -> <<2, 1>>
      [] ix.kind = "PrepareGovernanceTransition" ->
            <<2, 2>> \o Pubkey_bytes(ix.upcoming_governance_key)
      [] ix.kind = "EnactGovernanceTransition" -> <<2, 3>>
      [] ix.kind = "ChangeGovernanceFeeAccount" ->
            <<2, 4>> \o Pubkey_bytes(ix.governance_fee_key)
      [] ix.kind = "AdjustAmpFactor" ->
            <<2, 5>> \o to_le_bytes(ix.target_ts, 8) \o amp_bytes(ix.target_value)
      [] ix.kind = "SetPaused" -> <<2, 6, IF ix.paused THEN 1 ELSE 0>>

\* Processor::process: decode, then hand the instruction to its handler; the
\* io::Error of a failed decode leaves through `?` as ProgramError::BorshIoError
process(p, data, accounts, signers, t, rent_exempt, balances, supply, r, user_ok) ==
    LET d == try_from_slice(data) IN
    IF ~d.ok THEN DefiErr("BorshIoError", p, balances, supply)
    ELSE IF d.ix.kind = "Init"
    THEN LET o == process_init(p, d.ix, accounts, rent_exempt, balances, supply) IN
         [result |-> o.result, pool |-> o.pool, effects |-> <<>>,
          balances |-> balances, supply |-> supply]
    ELSE IF d.ix.kind \in DefiKinds
    THEN process_defi_instruction(p, d.ix, accounts, balances, supply, r, user_ok)
    ELSE LET o == process_governance_instruction(p, d.ix, accounts, signers, t) IN
         [result |-> o.result, pool |-> o.pool, effects |-> <<>>,
          balances |-> balances, supply |-> supply]

\* the instructions sent as bytes
WireIxs ==
    {InitIx(GoodNonce, 1, 0, 0),
     [kind |-> "Add", input_amounts |-> Ones, minimum_mint_amount |-> 0],
     [kind |-> "RemoveUniform", exact_burn_amount |-> 1,
      minimum_output_amounts |-> Zeros],
     [kind |-> "PrepareFeeChange", lp_fee |-> 1, governance_fee |-> 0],
     [kind |-> "EnactFeeChange"],
     [kind |-> "PrepareGovernanceTransition", upcoming_governance_key |-> "govB"]}
    \cup SetPausedIxs

\* data that is no instruction: cut short, too long, or with a tag, a nested
\* tag or a bool no variant has
Truncated(d) == SubSeq(d, 1, Len(d) - 1)
OverLong(d) == d \o <<0>>
UnknownTag(d) == <<3>> \o Tail(d)
UnknownNestedTag(d) == [d EXCEPT ![2] = 7]
MalformedData ==
    {<<>>, <<1>>, <<2, 6, 2>>}
    \cup UNION {{Truncated(try_to_vec(ix)), OverLong(try_to_vec(ix)),
                 UnknownTag(try_to_vec(ix))} : ix \in WireIxs}
    \cup {UnknownNestedTag(try_to_vec(ix)) : ix \in {x \in WireIxs : x.kind # "Init"}}
WireData == {try_to_vec(ix) : ix \in WireIxs} \cup MalformedData

\* the accounts, signers and answers of the ledger and the solver one
\* instruction may meet
ProcessEnv(accounts, signers, r, user_ok) ==
    [accounts |-> accounts, signers |-> signers, rent_exempt |-> TRUE,
     r |-> r, user_ok |-> user_ok]
ProcessEnvs(p, ix, balances, supply) ==
    CASE ix.kind = "Undecoded" ->
            {ProcessEnv(a, {}, InvariantErr("DidNotConverge"), TRUE) :
                a \in {<<>>, GoodInitAccounts, GoodDefiAccounts(p),
                       GovAccounts(p.governance_key, <<>>)}}
      [] ix.kind = "Init" ->
            {ProcessEnv(GoodInitAccounts, {}, InvariantErr("DidNotConverge"), TRUE)}
      [] ix.kind \in DefiKinds ->
            {ProcessEnv(GoodDefiAccounts(p), {}, e.r, e.user_ok) :
                e \in DefiEnvs(p, ix, GoodDefiAccounts(p), balances, supply)}
      [] OTHER ->
            {ProcessEnv(e.accounts, e.signers, InvariantErr("DidNotConverge"), TRUE) :
                e \in SignedGovEnvs(p, ix)}

\* one call of the program's entry point
CallProcess ==
    \E data \in WireData :
        \E env \in ProcessEnvs(pool, try_from_slice(data).ix, pool_balances,
                               lp_total_supply) :
            \E out \in {process(pool, data, env.accounts, env.signers, now,
                                env.rent_exempt, pool_balances, lp_total_supply,
                                env.r, env.user_ok)} :
            /\ \A i \in Tokens : out.balances[i] <= MaxBalance
            /\ out.supply <= MaxBalance
            /\ pool' = out.pool
            /\ pool_balances' = out.balances
            /\ lp_total_supply' = out.supply
            /\ effects' = out.effects
            /\ result' = out.result
            /\ lastOp' = Op(try_from_slice(data).ix.kind, env.accounts, env.signers)
            /\ pending' = pending_after(try_from_slice(data).ix, out.result, now)
            /\ UNCHANGED now

SpecWire == Init /\ [][Tick \/ CallProcess]_vars

\* ---------------------------------------------------------- decoding failure
\* C31: when the instruction bytes do not decode to a PoolInstruction (unknown
\* top-level or nested tag, truncated or over-long data), process fails with
\* InvalidInstructionData whatever accounts it is given, and leaves the record
\* and the ledger as they were, with no token program call.
C31_DecodingFailure ==
    \A data \in MalformedData :
        \A env \in ProcessEnvs(pool, NotDecoded.ix, pool_balances, lp_total_supply) :
            LET out == process(pool, data, env.accounts, env.signers, now,
                               env.rent_exempt, pool_balances, lp_total_supply,
                               env.r, env.user_ok)
            IN  /\ ~try_from_slice(data).ok
                /\ out.result = "InvalidInstructionData"
                /\ out.pool = pool
                /\ out.effects = <<>>
                /\ out.balances = pool_balances
                /\ out.supply = lp_total_supply

\* ------------------------------------------------- prepared fee changes
\* what a governance-signed PrepareFeeChange with fees below one in sum does
\* to the record p at time t
prepare_stores(p, t) ==
    \A ix \in PrepareFeeChangeIxs :
        \A env \in SignedGovEnvs(p, ix) :
            LET out == process_governance_instruction(p, ix, env.accounts,
                                                      env.signers, t)
            IN  (p.governance_key \in env.signers
                 /\ ix.lp_fee + ix.governance_fee < FeeDen)
                => /\ out.result = "Ok"
                   /\ out.pool = [p EXCEPT !.prepared_lp_fee = ix.lp_fee,
                                           !.prepared_governance_fee = ix.governance_fee,
                                           !.fee_transition_ts = t + ENACT_DELAY]

\* C32: PrepareFeeChange(l, g) with l + g < 1 stores the prepared fees and
\* fee_transition_ts = now + ENACT_DELAY and leaves the active fees alone,
\* also when a change is already waiting (it is overwritten and the delay
\* starts again); a successful EnactFeeChange puts into effect the arguments of
\* the most recent PrepareFeeChange, made at least ENACT_DELAY earlier.
C32_PrepareFeeChange ==
    /\ [](is_initialized(pool) => prepare_stores(pool, now))
    /\ [][(lastOp'.kind = "EnactFeeChange" /\ result' = "Ok")
            => /\ pending.fee # 0
               /\ now >= pending.fee + ENACT_DELAY
               /\ pool'.lp_fee = pending.lp_fee
               /\ pool'.governance_fee = pending.governance_fee]_vars

\* a change prepared at time 2 (the clock starts at 1) was enacted when its
\* delay had just passed, and put a fee above zero into effect
C32_Witness ==
    /\ lastOp.kind = "EnactFeeChange"
    /\ result = "Ok"
    /\ now = 2 + ENACT_DELAY
    /\ pool.lp_fee + pool.governance_fee > 0
    /\ pool.fee_transition_ts = 0

\* --------------------------------------------------- record after DeFi
\* the depth a successful operation leaves: the one the solver returned, or
\* for RemoveUniform the stored depth less the burnt share of it, the share
\* taken at DECIMAL_UPSHIFT digits
new_depth(p, ix, r, supply) ==
    IF ix.kind = "RemoveUniform"
    THEN p.previous_depth
         - (p.previous_depth
            * ((ix.exact_burn_amount * ten_to_the(DECIMAL_UPSHIFT)) \div supply))
           \div ten_to_the(DECIMAL_UPSHIFT)
    ELSE r.latest_depth

\* C33: every successful DeFi operation changes one field of the pool record
\* only, previous_depth, and sets it to the new depth of that operation; nonce,
\* pause bit, amp factor, active and prepared fees, all keys, equalizers and both
\* transition timestamps are as before.
C33_DefiFrame ==
    \A ix \in DefiIxs :
        \A env \in DefiEnvs(pool, ix, GoodDefiAccounts(pool), pool_balances,
                            lp_total_supply) :
            LET out == process_defi_instruction(pool, ix, GoodDefiAccounts(pool),
                                                pool_balances, lp_total_supply,
                                                env.r, env.user_ok)
            IN  out.result = "Ok"
                => out.pool = [pool EXCEPT !.previous_depth =
                                   new_depth(pool, ix, env.r, lp_total_supply)]

\* a swap went through, moved tokens both ways and left a depth above zero
C33_Witness ==
    /\ lastOp.kind \in {"SwapExactInput", "SwapExactOutput"}
    /\ result = "Ok"
    /\ pool.previous_depth > 0
    /\ Len(effects) >= 2
    /\ pool.nonce = GoodNonce

\* ----------------------------------------------------- governance frame
\* the fields of the record in which q differs from p
changed_fields(p, q) == {f \in DOMAIN p : p[f] # q[f]}

\* the fields each governance instruction may write
OwnFields(kind) ==
    CASE kind = "PrepareFeeChange" ->
            {"prepared_lp_fee", "prepared_governance_fee", "fee_transition_ts"}
      [] kind = "EnactFeeChange" ->
            {"lp_fee", "governance_fee", "prepared_lp_fee", "prepared_governance_fee",
             "fee_transition_ts"}
      [] kind = "PrepareGovernanceTransition" ->
            {"prepared_governance_key", "governance_transition_ts"}
      [] kind = "EnactGovernanceTransition" ->
            {"governance_key", "prepared_governance_key", "governance_transition_ts"}
      [] kind = "ChangeGovernanceFeeAccount" -> {"governance_fee_key"}
      [] kind = "AdjustAmpFactor" -> {"amp_factor"}
      [] kind = "SetPaused" -> {"is_paused"}

\* every governance instruction, signed or not, writes its own fields at most,
\* and none when it fails
governance_frame(p, t) ==
    \A ix \in GovIxs(t) :
        \A env \in SignedGovEnvs(p, ix) \cup BadGovEnvs(p) :
            LET out == process_governance_instruction(p, ix, env.accounts,
                                                      env.signers, t)
            IN  changed_fields(p, out.pool)
                \subseteq (IF out.result = "Ok" THEN OwnFields(ix.kind) ELSE {})

FeeMachineIxs == PrepareFeeChangeIxs \cup EnactFeeChangeIxs
KeyMachineIxs == PrepareGovernanceTransitionIxs \cup EnactGovernanceTransitionIxs

\* an instruction of the fee machine at time tf and one of the key machine at
\* time tk, once authorised, return the same and leave the same record in
\* either order
machines_commute(p, t) ==
    \A f \in FeeMachineIxs, k \in KeyMachineIxs :
        \A tf \in {x \in Times : x >= t}, tk \in {x \in Times : x >= t} :
            LET a == GovAccounts(p.governance_key, <<>>)
                pf == governance_arm(p, f, a, tf)
                pk == governance_arm(p, k, a, tk)
                pfk == governance_arm(pf.pool, k, a, tk)
                pkf == governance_arm(pk.pool, f, a, tf)
            IN  /\ pfk.result = pk.result
                /\ pkf.result = pf.result
                /\ pfk.pool = pkf.pool

\* C34: each governance operation changes only its own fields: the active fees
\* change only in a successful EnactFeeChange and the governance key only in a
\* successful EnactGovernanceTransition (Init, which creates the record, aside);
\* the fee machine never touches prepared_governance_key or
\* governance_transition_ts and the key machine never touches the prepared fees
\* or fee_transition_ts, so the two commute; no governance operation changes
\* previous_depth, nonce, the mint or vault keys, or the equalizers.
C34_GovernanceFrame ==
    /\ [](is_initialized(pool)
            => governance_frame(pool, now) /\ machines_commute(pool, now))
    /\ [][/\ (pool'.lp_fee # pool.lp_fee \/ pool'.governance_fee # pool.governance_fee)
              => (lastOp'.kind \in {"EnactFeeChange", "Init"} /\ result' = "Ok")
          /\ pool'.governance_key # pool.governance_key
              => (lastOp'.kind \in {"EnactGovernanceTransition", "Init"}
                  /\ result' = "Ok")]_vars

\* the fees were enacted while a governance transition was waiting
C34_Witness ==
    /\ lastOp.kind = "EnactFeeChange"
    /\ result = "Ok"
    /\ pool.lp_fee + pool.governance_fee > 0
    /\ pool.governance_transition_ts # 0
    /\ pool.prepared_governance_key = "govB"

\* ------------------------------------------------------ pending changes
\* C35: in every reachable record fee_transition_ts = 0 implies that both
\* prepared fees are zero and governance_transition_ts = 0 implies that
\* prepared_governance_key is the zero key; a transition timestamp other than
\* zero is the clock time of the most recent prepare of its kind plus
\* ENACT_DELAY, and so lies above ENACT_DELAY, the clock being positive.
C35_PendingChange ==
    /\ pool.fee_transition_ts = 0
        => (pool.prepared_lp_fee = 0 /\ pool.prepared_governance_fee = 0)
    /\ pool.governance_transition_ts = 0 => pool.prepared_governance_key = ZeroKey
    /\ pool.fee_transition_ts # 0
        => /\ pending.fee > 0
           /\ pool.fee_transition_ts = pending.fee + ENACT_DELAY
           /\ pool.fee_transition_ts > ENACT_DELAY
    /\ pool.governance_transition_ts # 0
        => /\ pending.gov > 0
           /\ pool.governance_transition_ts = pending.gov + ENACT_DELAY
           /\ pool.governance_transition_ts > ENACT_DELAY
    /\ pending.fee # 0 => pool.fee_transition_ts # 0
    /\ pending.gov # 0 => pool.governance_transition_ts # 0

\* a fee change prepared at time 1 and a governance transition prepared at
\* time 2 both wait
C35_Witness ==
    /\ pool.fee_transition_ts = 1 + ENACT_DELAY
    /\ pool.governance_transition_ts = 2 + ENACT_DELAY
    /\ pool.prepared_lp_fee + pool.prepared_governance_fee > 0
    /\ pool.prepared_governance_key # ZeroKey

\* ------------------------------------------------- pause and governance
Unpause == [kind |-> "SetPaused", paused |-> FALSE]

\* SetPaused(false) signed by the governance key of p
unpaused(p, t) ==
    process_governance_instruction(p, Unpause, GovAccounts(p.governance_key, <<>>),
                                   {p.governance_key}, t)

\* no gated instruction is refused with PoolIsPaused on record p
not_gated(p, balances, supply) ==
    \A ix \in GatedIxs :
        \A env \in DefiEnvs(p, ix, GoodDefiAccounts(p), balances, supply) :
            process_defi_instruction(p, ix, GoodDefiAccounts(p), balances, supply,
                                     env.r, env.user_ok).result # "PoolIsPaused"

\* a governance instruction other than SetPaused returns the same and writes
\* the same whether p is paused or not
pause_blind(p, t) ==
    LET q == [p EXCEPT !.is_paused = ~p.is_paused] IN
    \A ix \in GovIxs(t) \ SetPausedIxs :
        \A env \in SignedGovEnvs(p, ix) \cup BadGovEnvs(p) :
            LET outp == process_governance_instruction(p, ix, env.accounts,
                                                       env.signers, t)
                outq == process_governance_instruction(q, ix, env.accounts,
                                                       env.signers, t)
            IN  /\ outq.result = outp.result
                /\ outq.pool = [outp.pool EXCEPT !.is_paused = q.is_paused]
                /\ outp.pool.is_paused = p.is_paused

\* p with a fee change or a governance transition prepared at time t
with_pending(p, t) ==
    {governance_arm(p, ix, GovAccounts(p.governance_key, <<>>), t).pool :
        ix \in {[kind |-> "PrepareFeeChange", lp_fee |-> 1, governance_fee |-> 0],
                [kind |-> "PrepareGovernanceTransition",
                 upcoming_governance_key |-> "govB"]}}

\* C36: the pause bit gates DeFi operations only: from every paused state a
\* SetPaused(false) signed by the current governance key succeeds, and after
\* it Add, the swaps and the exact removals are no longer refused with
\* PoolIsPaused; every other governance operation behaves the same whether
\* the pool is paused or not.
C36_PauseKeepsGovernance ==
    is_initialized(pool)
    => /\ pause_blind(pool, now)
       /\ \A p \in with_pending(pool, now) : pause_blind(p, now + ENACT_DELAY)
       /\ pool.is_paused
           => /\ unpaused(pool, now).result = "Ok"
              /\ unpaused(pool, now).pool = [pool EXCEPT !.is_paused = FALSE]
              /\ not_gated(unpaused(pool, now).pool, pool_balances, lp_total_supply)

\* a funded pool is paused and has just refused a deposit; unpaused by its
\* governance key it takes the same deposit
C36_Witness ==
    /\ pool.is_paused
    /\ lp_total_supply > 0
    /\ lastOp.kind = "Add"
    /\ result = "PoolIsPaused"
    /\ unpaused(pool, now).result = "Ok"
    /\ \E env \in DefiEnvs(unpaused(pool, now).pool,
                           [kind |-> "Add", input_amounts |-> Ones,
                            minimum_mint_amount |-> 0],
                           GoodDefiAccounts(pool), pool_balances, lp_total_supply) :
          process_defi_instruction(unpaused(pool, now).pool,
                                   [kind |-> "Add", input_amounts |-> Ones,
                                    minimum_mint_amount |-> 0],
                                   GoodDefiAccounts(pool), pool_balances,
                                   lp_total_supply, env.r, env.user_ok).result = "Ok"

RECURSIVE wide(_)
wide(n) == IF n = 0 THEN <<>> ELSE <<n % 1000>> \o wide(n \div 1000)

RECURSIVE wide_scale(_, _, _)
wide_scale(a, k, carry) ==
    IF a = <<>>
    THEN IF carry = 0 THEN <<>> ELSE <<carry % 1000>> \o wide_scale(<<>>, k, carry \div 1000)
    ELSE <<(Head(a) * k + carry) % 1000>>
         \o wide_scale(Tail(a), k, (Head(a) * k + carry) \div 1000)

RECURSIVE wide_add(_, _, _)
wide_add(a, b, carry) ==
    IF a = <<>> /\ b = <<>>
    THEN IF carry = 0 THEN <<>> ELSE <<carry>>
    ELSE LET x == IF a = <<>> THEN 0 ELSE Head(a)
             y == IF b = <<>> THEN 0 ELSE Head(b)
         IN  <<(x + y + carry) % 1000>>
             \o wide_add(IF a = <<>> THEN <<>> ELSE Tail(a),
                         IF b = <<>> THEN <<>> ELSE Tail(b),
                         (x + y + carry) \div 1000)

RECURSIVE wide_mul(_, _)
wide_mul(a, b) ==
    IF b = <<>> THEN <<>>
    ELSE wide_add(wide_scale(a, Head(b), 0), <<0>> \o wide_mul(a, Tail(b)), 0)

\* quotient and remainder of a by a divisor below 2^21
RECURSIVE wide_div(_, _)
wide_div(a, k) ==
    IF a = <<>> THEN [q |-> <<>>, r |-> 0]
    ELSE LET hi == wide_div(Tail(a), k)
             v == hi.r * 1000 + Head(a)
         IN  [q |-> <<v \div k>> \o hi.q, r |-> v % k]

\* -1, 0 or 1 as a is below, equal to or above b
RECURSIVE wide_cmp(_, _)
wide_cmp(a, b) ==
    IF a = <<>> /\ b = <<>> THEN 0
    ELSE LET x == IF a = <<>> THEN 0 ELSE Head(a)
             y == IF b = <<>> THEN 0 ELSE Head(b)
             hi == wide_cmp(IF a = <<>> THEN <<>> ELSE Tail(a),
                            IF b = <<>> THEN <<>> ELSE Tail(b))
         IN  IF hi # 0 THEN hi ELSE IF x < y THEN -1 ELSE IF x > y THEN 1 ELSE 0

\* u64::MAX = 18,446,744,073,709,551,615 and
\* u128::MAX = 340,282,366,920,938,463,463,374,607,431,768,211,455
U64_MAX == <<615, 551, 709, 73, 744, 446, 18>>
U128_MAX == <<455, 211, 768, 431, 607, 374, 463, 463, 938, 920, 366, 282, 340>>
\* 10u64.pow(DECIMAL_UPSHIFT) of the RemoveUniform arm, DECIMAL_UPSHIFT being 18
UPSHIFT_18 == <<0, 0, 0, 0, 0, 0, 1>>

\* (user_share * 10^18).trunc() for user_share = exact_burn_amount / lp_total_supply
upshifted_share(exact_burn_amount, supply) ==
    wide_div(wide_mul(wide(exact_burn_amount), UPSHIFT_18), supply).q

\* previous_depth * ((user_share * 10^18).trunc() as u128), before it is
\* divided by 10^18
user_depth_product(previous_depth, exact_burn_amount, supply) ==
    wide_mul(previous_depth, upshifted_share(exact_burn_amount, supply))

\* depths of the record: the one it holds, the largest of 20 digits, the sum of
\* TOKEN_COUNT full vaults, and one and TOKEN_COUNT full vaults equalized by
\* MAX_DECIMAL_DIFFERENCE digits
WideDepths(p) ==
    {wide(p.previous_depth),
     <<999, 999, 999, 999, 999, 999, 99>>,
     wide_scale(U64_MAX, TOKEN_COUNT, 0),
     wide_mul(U64_MAX, wide(ten_to_the(MAX_DECIMAL_DIFFERENCE))),
     wide_scale(wide_mul(U64_MAX, wide(ten_to_the(MAX_DECIMAL_DIFFERENCE))),
                TOKEN_COUNT, 0)}

\* C38: for every previous_depth over equalized balances (up to TOKEN_COUNT
\* vault balances of up to 2^64 - 1 raw units, each scaled by up to 10^8) and
\* every user_share in (0, 1], the product previous_depth *
\* trunc(user_share * 10^18) of the RemoveUniform arm does not exceed 2^128 - 1.
C38_DepthProductFits ==
    \A d \in WideDepths(pool) :
        \A supply \in {lp_total_supply} \cup (1 .. MaxDeepBalance) :
            \A burn \in 1 .. supply :
                wide_cmp(user_depth_product(d, burn, supply), U128_MAX) <= 0

====
